---- MODULE Spec2Model ----
(***************************************************************************)
(* Architecture validation and scoring engine of layered-architecture-game *)
(* (packages/shared-domain): the LayerStructure graph model, its cycle     *)
(* detector, the rules and the violation-penalty score of                  *)
(* ArchitectureValidator, the weighted composite Score, and the            *)
(* GameSession that submits a solution and scores it.                      *)
(*                                                                         *)
(* Error messages of the source are Japanese string literals; each is      *)
(* modelled by a distinct ASCII token named after the rule it belongs to.  *)
(***************************************************************************)
EXTENDS Integers, Sequences, FiniteSets, TLC

VARIABLES layers, blocks, connections, call, ret, vlist, vscore, session,
          usecase

vars ==
  <<layers, blocks, connections, call, ret, vlist, vscore, session, usecase>>

graph == <<layers, blocks, connections>>

\* the GameSession, before GameSession.start has created one
NoSession == <<>>

\* the position of a use case of the application layer: no call made yet
\* (idle), inside saveWithRetry before repository.save attempt number
\* attempt (saving), or completed by a return or by a throw; saves lists
\* the outcomes of the repository.save calls of the current call
NoUseCase == [pc |-> "idle", name |-> "none", attempt |-> 0, saves |-> <<>>]

(***************************************************************************)
(* Bounds of the model.                                                    *)
(***************************************************************************)
\* (block, layer) memberships plus stored connections explored per
\* LayerStructure
MaxGraphSize == 4
\* (block, layer) memberships explored when only blocks are placed
MaxPlacements == 2
\* stored connections explored when all blocks share one layer
MaxCycleConnections == 3
\* length of the violation lists handed to calculateScore
MaxViolations == 4

(***************************************************************************)
(* value-objects/layer-id.ts, models/code-block.ts                         *)
(***************************************************************************)
Presentation == "presentation"
Application == "application"
Domain == "domain"
Infrastructure == "infrastructure"

LayerId == {Presentation, Application, Domain, Infrastructure}

BlockType ==
  {"ui-component", "entity", "value-object", "service", "usecase", "dto",
   "repository", "repository-impl", "controller", "domain-service"}

\* a CodeBlock is identified by its id; its type is fixed at construction
\* and its property and method lists start empty
CodeBlock(id, type) ==
  [id |-> id, type |-> type, properties |-> <<>>, methods |-> <<>>]

BlockProperty(name, type) == [name |-> name, type |-> type]

BlockMethod(name, lines) == [name |-> name, lines |-> lines]

\* block.properties = properties
WithProperties(block, properties) ==
  [block EXCEPT !.properties = properties]

\* block.methods = methods
WithMethods(block, methods) == [block EXCEPT !.methods = methods]

isUIComponent(block) == block.type = "ui-component"

isEntity(block) == block.type = "entity"

isValueObject(block) == block.type = "value-object"

\* variant: DomainService left out of the domain models
isDomainModelNoService(block) == isEntity(block) \/ isValueObject(block)

isDomainModel(block) ==
  isEntity(block) \/ isValueObject(block) \/ block.type = "domain-service"

isInfrastructure(block) == block.type = "repository-impl"

(***************************************************************************)
(* models/result.ts                                                        *)
(***************************************************************************)
\* Result.ok(value?): the optional value is a sequence of length 0 or 1
ResultOk(value) == [isSuccess |-> TRUE, error |-> "null", value |-> value]

ResultFail(error) == [isSuccess |-> FALSE, error |-> error, value |-> <<>>]

(***************************************************************************)
(* Error messages (tokens for the source's string literals).               *)
(***************************************************************************)
ErrUIOnlyPresentation == "ui-component-only-in-presentation"
ErrDomainModelOnlyDomain == "domain-model-only-in-domain"
ErrRepoImplOnlyInfra == "repository-impl-only-in-infrastructure"
ErrLayerMissing == "layer-does-not-exist"
ErrBlockMissing == "block-does-not-exist"
ErrDomainDependsOnOther == "domain-cannot-depend-on-other-layers"
ErrPresentationToInfra == "presentation-cannot-depend-on-infrastructure"
ErrPresentationToDomain == "presentation-cannot-depend-on-domain"
ErrApplicationToPresentation == "application-cannot-depend-on-presentation"
ErrInfraToUpper == "infrastructure-cannot-depend-on-upper-layers"

(***************************************************************************)
(* JavaScript Map<string, {block, layerId}> as the sequence of its entries *)
(* in insertion order: set() on a present key replaces the value in place, *)
(* on an absent key appends.                                               *)
(***************************************************************************)
MapKeys(m) == [i \in 1..Len(m) |-> m[i].block.id]

MapHas(m, id) == \E i \in 1..Len(m) : m[i].block.id = id

MapGet(m, id) == m[CHOOSE i \in 1..Len(m) : m[i].block.id = id]

MapSet(m, entry) ==
  IF MapHas(m, entry.block.id)
  THEN [i \in 1..Len(m) |->
          IF m[i].block.id = entry.block.id THEN entry ELSE m[i]]
  ELSE Append(m, entry)

(***************************************************************************)
(* models/connection (class Connection)                                    *)
(***************************************************************************)
Connection(from, to) == [from |-> from, to |-> to]

(***************************************************************************)
(* Inputs of the operations: the blocks a caller constructs.               *)
(***************************************************************************)
\* one block of each placement-restricted kind and an unrestricted one:
\* every ordered pair of layers is the pair of two of these blocks
Blocks ==
  {CodeBlock("ui", "ui-component"), CodeBlock("ent", "entity"),
   CodeBlock("impl", "repository-impl"), CodeBlock("svc", "service")}

BlockIds == {b.id : b \in Blocks}

\* one block of every BlockType
TypedBlocks == {CodeBlock(t, t) : t \in BlockType}

\* three unrestricted blocks, which may all be connected to each other
\* once placed in the same layer
ServiceBlocks ==
  {CodeBlock("A", "service"), CodeBlock("B", "service"),
   CodeBlock("C", "service")}

ServiceIds == {b.id : b \in ServiceBlocks}

(***************************************************************************)
(* models/layer-structure.ts                                               *)
(***************************************************************************)
validateBlockPlacement(layerId, block) ==
  IF isUIComponent(block) /\ layerId # Presentation
  THEN ResultFail(ErrUIOnlyPresentation)
  ELSE IF isDomainModel(block) /\ layerId # Domain
  THEN ResultFail(ErrDomainModelOnlyDomain)
  ELSE IF isInfrastructure(block) /\ layerId # Infrastructure
  THEN ResultFail(ErrRepoImplOnlyInfra)
  ELSE ResultOk(<<>>)

\* variant: the Infrastructure rule forbids Presentation only
validateDependencyInfraToApp(fromLayer, toLayer) ==
  IF fromLayer = Domain /\ toLayer # Domain
  THEN ResultFail(ErrDomainDependsOnOther)
  ELSE IF fromLayer = Presentation /\ toLayer = Infrastructure
  THEN ResultFail(ErrPresentationToInfra)
  ELSE IF fromLayer = Presentation /\ toLayer = Domain
  THEN ResultFail(ErrPresentationToDomain)
  ELSE IF fromLayer = Application /\ toLayer = Presentation
  THEN ResultFail(ErrApplicationToPresentation)
  ELSE IF fromLayer = Infrastructure /\ toLayer = Presentation
  THEN ResultFail(ErrInfraToUpper)
  ELSE ResultOk(<<>>)

validateDependency(fromLayer, toLayer) ==
  IF fromLayer = Domain /\ toLayer # Domain
  THEN ResultFail(ErrDomainDependsOnOther)
  ELSE IF fromLayer = Presentation /\ toLayer = Infrastructure
  THEN ResultFail(ErrPresentationToInfra)
  ELSE IF fromLayer = Presentation /\ toLayer = Domain
  THEN ResultFail(ErrPresentationToDomain)
  ELSE IF fromLayer = Application /\ toLayer = Presentation
  THEN ResultFail(ErrApplicationToPresentation)
  ELSE IF fromLayer = Infrastructure
          /\ (toLayer = Presentation \/ toLayer = Application)
  THEN ResultFail(ErrInfraToUpper)
  ELSE ResultOk(<<>>)

\* number of (block, layer) memberships held by the four Layer objects
Placements ==
  Cardinality(layers[Presentation]) + Cardinality(layers[Application])
    + Cardinality(layers[Domain]) + Cardinality(layers[Infrastructure])

\* memberships and connections held by the LayerStructure
GraphSize == Placements + Len(connections)

\* variant: the block is attached to the layer before its placement is
\* validated
addBlockAttachFirst(layerId, block) ==
  LET validationResult == validateBlockPlacement(layerId, block) IN
  /\ call' = [op |-> "addBlock"]
  /\ layers' = [layers EXCEPT ![layerId] = @ \cup {block.id}]
  /\ IF ~validationResult.isSuccess
     THEN /\ ret' = validationResult
          /\ UNCHANGED <<blocks, connections>>
     ELSE /\ blocks' = MapSet(blocks, [block |-> block, layerId |-> layerId])
          /\ ret' = ResultOk(<<>>)
          /\ UNCHANGED connections
  /\ UNCHANGED <<vlist, vscore, session, usecase>>

addBlock(layerId, block) ==
  LET validationResult == validateBlockPlacement(layerId, block) IN
  /\ call' = [op |-> "addBlock"]
  /\ IF ~validationResult.isSuccess
     THEN /\ ret' = validationResult
          /\ UNCHANGED graph
     ELSE IF layerId \notin DOMAIN layers
     THEN /\ ret' = ResultFail(ErrLayerMissing)
          /\ UNCHANGED graph
     ELSE /\ layers' = [layers EXCEPT ![layerId] = @ \cup {block.id}]
          /\ blocks' = MapSet(blocks, [block |-> block, layerId |-> layerId])
          /\ ret' = ResultOk(<<>>)
          /\ UNCHANGED connections
  /\ UNCHANGED <<vlist, vscore, session, usecase>>

\* layer of a looked-up block read through optional chaining
LayerOrUndefined(m, id) ==
  IF MapHas(m, id) THEN MapGet(m, id).layerId ELSE "undefined"

\* variant: only the source block's existence is checked
createConnectionSourceOnly(fromBlockId, toBlockId) ==
  /\ call' = [op |-> "createConnection"]
  /\ IF ~MapHas(blocks, fromBlockId)
     THEN /\ ret' = ResultFail(ErrBlockMissing)
          /\ UNCHANGED graph
     ELSE LET validationResult ==
                validateDependency(LayerOrUndefined(blocks, fromBlockId),
                                   LayerOrUndefined(blocks, toBlockId))
          IN IF ~validationResult.isSuccess
             THEN /\ ret' = validationResult
                  /\ UNCHANGED graph
             ELSE /\ connections' =
                       Append(connections, Connection(fromBlockId, toBlockId))
                  /\ ret' = ResultOk(<<Connection(fromBlockId, toBlockId)>>)
                  /\ UNCHANGED <<layers, blocks>>
  /\ UNCHANGED <<vlist, vscore, session, usecase>>

\* variant: not-found is returned only when both blocks are missing
createConnectionBothMissing(fromBlockId, toBlockId) ==
  /\ call' = [op |-> "createConnection"]
  /\ IF ~MapHas(blocks, fromBlockId) /\ ~MapHas(blocks, toBlockId)
     THEN /\ ret' = ResultFail(ErrBlockMissing)
          /\ UNCHANGED graph
     ELSE LET validationResult ==
                validateDependency(LayerOrUndefined(blocks, fromBlockId),
                                   LayerOrUndefined(blocks, toBlockId))
          IN IF ~validationResult.isSuccess
             THEN /\ ret' = validationResult
                  /\ UNCHANGED graph
             ELSE /\ connections' =
                       Append(connections, Connection(fromBlockId, toBlockId))
                  /\ ret' = ResultOk(<<Connection(fromBlockId, toBlockId)>>)
                  /\ UNCHANGED <<layers, blocks>>
  /\ UNCHANGED <<vlist, vscore, session, usecase>>

createConnection(fromBlockId, toBlockId) ==
  /\ call' = [op |-> "createConnection"]
  /\ IF ~MapHas(blocks, fromBlockId) \/ ~MapHas(blocks, toBlockId)
     THEN /\ ret' = ResultFail(ErrBlockMissing)
          /\ UNCHANGED graph
     ELSE LET fromBlock == MapGet(blocks, fromBlockId)
              toBlock == MapGet(blocks, toBlockId)
              validationResult ==
                validateDependency(fromBlock.layerId, toBlock.layerId)
          IN IF ~validationResult.isSuccess
             THEN /\ ret' = validationResult
                  /\ UNCHANGED graph
             ELSE /\ connections' =
                       Append(connections, Connection(fromBlockId, toBlockId))
                  /\ ret' = ResultOk(<<Connection(fromBlockId, toBlockId)>>)
                  /\ UNCHANGED <<layers, blocks>>
  /\ UNCHANGED <<vlist, vscore, session, usecase>>

(***************************************************************************)
(* models/validation-result.ts                                             *)
(***************************************************************************)
\* the score of a ValidationResult built without one (undefined)
NoScore == "undefined"

ValidationResult(isValid, violations, score) ==
  [isValid |-> isValid, violations |-> violations, score |-> score]

ValidationResultValid == ValidationResult(TRUE, <<>>, NoScore)

ValidationResultInvalid(violations) ==
  ValidationResult(FALSE, violations, NoScore)

(***************************************************************************)
(* Cycle detection of LayerStructure.  The adjacency list maps a block id  *)
(* to the targets of its connections in insertion order.  The traversal    *)
(* state (visited, recursionStack, path) is threaded through the calls;    *)
(* a search result is [found, cycle, visited, recursionStack, path].       *)
(***************************************************************************)
RECURSIVE SelectTargets(_, _)
SelectTargets(conns, node) ==
  IF conns = <<>> THEN <<>>
  ELSE IF Head(conns).from = node
       THEN <<Head(conns).to>> \o SelectTargets(Tail(conns), node)
       ELSE SelectTargets(Tail(conns), node)

adjacencyList(conns) ==
  [node \in {conns[i].from : i \in 1..Len(conns)} |->
     SelectTargets(conns, node)]

\* adjacencyList.get(node) || []
Neighbors(adj, node) == IF node \in DOMAIN adj THEN adj[node] ELSE <<>>

\* Array.prototype.indexOf, 1-based; the element is present when called
IndexOf(path, x) ==
  CHOOSE i \in 1..Len(path) :
    path[i] = x /\ \A j \in 1..(i - 1) : path[j] # x

RECURSIVE dfsDetectCycle(_, _, _, _, _)
RECURSIVE dfsNeighbors(_, _, _, _, _, _)

\* variant: the whole path is reported, not the part from the neighbor on
dfsNeighborsWholePath(node, adj, i, visited, recursionStack, path) ==
  LET neighbors == Neighbors(adj, node) IN
  IF i > Len(neighbors)
  THEN [found |-> FALSE, cycle |-> <<>>, visited |-> visited,
        recursionStack |-> recursionStack \ {node},
        path |-> SubSeq(path, 1, Len(path) - 1)]
  ELSE LET neighbor == neighbors[i] IN
       IF neighbor \notin visited
       THEN LET r == dfsDetectCycle(neighbor, adj, visited, recursionStack,
                                    path)
            IN IF r.found THEN r
               ELSE dfsNeighbors(node, adj, i + 1, r.visited,
                                 r.recursionStack, r.path)
       ELSE IF neighbor \in recursionStack
       THEN [found |-> TRUE, cycle |-> path \o <<neighbor>>,
             visited |-> visited, recursionStack |-> recursionStack,
             path |-> path]
       ELSE dfsNeighbors(node, adj, i + 1, visited, recursionStack, path)

\* variant: a connection from the current node to itself closes no cycle
dfsNeighborsSkipSelfLoop(node, adj, i, visited, recursionStack, path) ==
  LET neighbors == Neighbors(adj, node) IN
  IF i > Len(neighbors)
  THEN [found |-> FALSE, cycle |-> <<>>, visited |-> visited,
        recursionStack |-> recursionStack \ {node},
        path |-> SubSeq(path, 1, Len(path) - 1)]
  ELSE LET neighbor == neighbors[i] IN
       IF neighbor \notin visited
       THEN LET r == dfsDetectCycle(neighbor, adj, visited, recursionStack,
                                    path)
            IN IF r.found THEN r
               ELSE dfsNeighbors(node, adj, i + 1, r.visited,
                                 r.recursionStack, r.path)
       ELSE IF neighbor \in recursionStack /\ neighbor # node
       THEN [found |-> TRUE,
             cycle |-> SubSeq(path, IndexOf(path, neighbor), Len(path))
                         \o <<neighbor>>,
             visited |-> visited, recursionStack |-> recursionStack,
             path |-> path]
       ELSE dfsNeighbors(node, adj, i + 1, visited, recursionStack, path)

\* the for-loop over neighbors of node, from position i on
dfsNeighbors(node, adj, i, visited, recursionStack, path) ==
  LET neighbors == Neighbors(adj, node) IN
  IF i > Len(neighbors)
  THEN [found |-> FALSE, cycle |-> <<>>, visited |-> visited,
        recursionStack |-> recursionStack \ {node},
        path |-> SubSeq(path, 1, Len(path) - 1)]
  ELSE LET neighbor == neighbors[i] IN
       IF neighbor \notin visited
       THEN LET r == dfsDetectCycle(neighbor, adj, visited, recursionStack,
                                    path)
            IN IF r.found THEN r
               ELSE dfsNeighbors(node, adj, i + 1, r.visited,
                                 r.recursionStack, r.path)
       ELSE IF neighbor \in recursionStack
       THEN [found |-> TRUE,
             cycle |-> SubSeq(path, IndexOf(path, neighbor), Len(path))
                         \o <<neighbor>>,
             visited |-> visited, recursionStack |-> recursionStack,
             path |-> path]
       ELSE dfsNeighbors(node, adj, i + 1, visited, recursionStack, path)

dfsDetectCycle(node, adj, visited, recursionStack, path) ==
  dfsNeighbors(node, adj, 1, visited \cup {node},
               recursionStack \cup {node}, Append(path, node))

RECURSIVE detectFrom(_, _, _, _, _, _)
\* variant: the traversal is started from the first registered block only
detectFromFirstKey(keys, adj, i, visited, recursionStack, path) ==
  IF i > Len(keys) \/ i > 1
  THEN [found |-> FALSE, cycle |-> <<>>]
  ELSE LET r == dfsDetectCycle(keys[i], adj, visited, recursionStack, path)
       IN IF r.found THEN [found |-> TRUE, cycle |-> r.cycle]
          ELSE detectFrom(keys, adj, i + 1, r.visited, r.recursionStack,
                          r.path)

\* the for-loop over this.blocks.keys(), from position i on
detectFrom(keys, adj, i, visited, recursionStack, path) ==
  IF i > Len(keys)
  THEN [found |-> FALSE, cycle |-> <<>>]
  ELSE IF keys[i] \notin visited
  THEN LET r == dfsDetectCycle(keys[i], adj, visited, recursionStack, path)
       IN IF r.found THEN [found |-> TRUE, cycle |-> r.cycle]
          ELSE detectFrom(keys, adj, i + 1, r.visited, r.recursionStack,
                          r.path)
  ELSE detectFrom(keys, adj, i + 1, visited, recursionStack, path)

\* [found |-> FALSE] stands for the null return value
detectCyclicDependency(blks, conns) ==
  detectFrom(MapKeys(blks), adjacencyList(conns), 1, {}, {}, <<>>)

Violation(type, cycle) == [type |-> type, cycle |-> cycle]

validateStructure(blks, conns) ==
  LET cyclicDependency == detectCyclicDependency(blks, conns)
      violations ==
        IF cyclicDependency.found
        THEN <<Violation("CYCLIC_DEPENDENCY", cyclicDependency.cycle)>>
        ELSE <<>>
  IN IF Len(violations) = 0
     THEN ValidationResultValid
     ELSE ValidationResultInvalid(violations)

validate ==
  /\ call' = [op |-> "validate"]
  /\ ret' = validateStructure(blocks, connections)
  /\ UNCHANGED <<graph, vlist, vscore, session, usecase>>

(***************************************************************************)
(* The engine: an empty LayerStructure, then any sequence of operations.   *)
(***************************************************************************)
Init ==
  /\ layers = [l \in LayerId |-> {}]
  /\ blocks = <<>>
  /\ connections = <<>>
  /\ call = [op |-> "create"]
  /\ ret = ResultOk(<<>>)
  /\ vlist = <<>>
  /\ vscore = NoScore
  /\ session = NoSession
  /\ usecase = NoUseCase

\* the bounds cut the exploration after the operation has acted
Next ==
  \/ \E layerId \in LayerId, block \in Blocks :
       addBlock(layerId, block) /\ GraphSize' <= MaxGraphSize
  \/ \E fromBlockId \in BlockIds, toBlockId \in BlockIds :
       /\ createConnection(fromBlockId, toBlockId)
       /\ GraphSize' <= MaxGraphSize
  \/ validate

Spec == Init /\ [][Next]_vars

(***************************************************************************)
(* Placement of a block of every type in every layer.                      *)
(***************************************************************************)
NextPlacement ==
  \E layerId \in LayerId, block \in TypedBlocks :
    addBlock(layerId, block) /\ Placements' <= MaxPlacements

SpecPlacement == Init /\ [][NextPlacement]_vars

(***************************************************************************)
(* Graphs over three blocks of one layer: every connection is legal, so    *)
(* every directed multigraph of up to MaxCycleConnections edges is built.  *)
(***************************************************************************)
NextCycle ==
  \/ \E block \in ServiceBlocks : addBlock(Application, block)
  \/ \E fromBlockId \in ServiceIds, toBlockId \in ServiceIds :
       /\ createConnection(fromBlockId, toBlockId)
       /\ Len(connections') <= MaxCycleConnections
  \/ validate

SpecCycle == Init /\ [][NextCycle]_vars

(***************************************************************************)
(* services/architecture-validator: the violation-penalty score.           *)
(***************************************************************************)
PenaltyCyclicDependency == 30
PenaltyDependencyViolation == 20
PenaltyDTOPurity == 15
PenaltyPresentationToInfra == 15
PenaltyFatService == 10
PenaltyDefault == 5
InitialScore == 100

\* variant: a cyclic dependency costs nothing
PenaltyFreeCycle(type) ==
  CASE type = "CYCLIC_DEPENDENCY" -> 0
    [] type = "DEPENDENCY_VIOLATION" -> PenaltyDependencyViolation
    [] type = "DTO_PURITY_VIOLATION" -> PenaltyDTOPurity
    [] type = "PRESENTATION_TO_INFRA" -> PenaltyPresentationToInfra
    [] type = "FAT_SERVICE" -> PenaltyFatService
    [] OTHER -> PenaltyDefault

\* the switch on violation.type
Penalty(type) ==
  CASE type = "CYCLIC_DEPENDENCY" -> PenaltyCyclicDependency
    [] type = "DEPENDENCY_VIOLATION" -> PenaltyDependencyViolation
    [] type = "DTO_PURITY_VIOLATION" -> PenaltyDTOPurity
    [] type = "PRESENTATION_TO_INFRA" -> PenaltyPresentationToInfra
    [] type = "FAT_SERVICE" -> PenaltyFatService
    [] OTHER -> PenaltyDefault

Max(a, b) == IF a > b THEN a ELSE b

Min(a, b) == IF a < b THEN a ELSE b

RECURSIVE SubtractPenalties(_, _)
\* the for-loop of calculateScore: score -= penalty, violation by violation
SubtractPenalties(score, violations) ==
  IF violations = <<>> THEN score
  ELSE SubtractPenalties(score - Penalty(Head(violations).type),
                         Tail(violations))

\* variant: the result is capped at 100 but not floored at 0
calculateScoreNoFloor(violations) ==
  Min(InitialScore, SubtractPenalties(InitialScore, violations))

calculateScore(violations) ==
  Max(0, Min(InitialScore, SubtractPenalties(InitialScore, violations)))

\* the violation types calculateScore names, and one it does not
ViolationTypes ==
  {"CYCLIC_DEPENDENCY", "DEPENDENCY_VIOLATION", "DTO_PURITY_VIOLATION",
   "PRESENTATION_TO_INFRA", "FAT_SERVICE", "PLACEMENT_VIOLATION"}

ViolationLists ==
  UNION {[1..n -> {Violation(t, <<>>) : t \in ViolationTypes}] :
           n \in 0..MaxViolations}

InitScore ==
  /\ layers = [l \in LayerId |-> {}]
  /\ blocks = <<>>
  /\ connections = <<>>
  /\ call = [op |-> "create"]
  /\ ret = ResultOk(<<>>)
  /\ vlist \in ViolationLists
  /\ vscore = NoScore
  /\ session = NoSession
  /\ usecase = NoUseCase

scoreViolations ==
  /\ call' = [op |-> "calculateScore"]
  /\ vscore' = calculateScore(vlist)
  /\ UNCHANGED <<graph, ret, vlist, session, usecase>>

NextScore == scoreViolations

SpecScore == InitScore /\ [][NextScore]_vars

(***************************************************************************)
(* models/validation-rule.ts                                               *)
(***************************************************************************)
NoDependencyViolation == "NO_DEPENDENCY_VIOLATION"
NoCyclicDependency == "NO_CYCLIC_DEPENDENCY"
NoPresentationToInfra == "NO_PRESENTATION_TO_INFRA"
NoUIInDTO == "NO_UI_IN_DTO"
NoFatService == "NO_FAT_SERVICE"
NoDomainLogicInController == "NO_DOMAIN_LOGIC_IN_CONTROLLER"
RequireInterfaceForRepository == "REQUIRE_INTERFACE_FOR_REPOSITORY"

ValidationRule ==
  {NoDependencyViolation, NoCyclicDependency, NoPresentationToInfra,
   NoUIInDTO, NoFatService, NoDomainLogicInController,
   RequireInterfaceForRepository}

\* params is a record of the configured keys; no params is the empty record
NoParams == <<>>

RuleConfig(enabled, severity, params) ==
  [enabled |-> enabled, severity |-> severity, params |-> params]

FatServiceParams(maxMethods, maxLines) ==
  [maxMethods |-> maxMethods, maxLines |-> maxLines]

DEFAULT_RULE_CONFIGS ==
  [rule \in ValidationRule |->
     CASE rule \in {NoDependencyViolation, NoCyclicDependency,
                    NoPresentationToInfra, NoUIInDTO}
            -> RuleConfig(TRUE, "error", NoParams)
       [] rule = NoFatService
            -> RuleConfig(TRUE, "warning", FatServiceParams(20, 200))
       [] OTHER -> RuleConfig(TRUE, "warning", NoParams)]

(***************************************************************************)
(* Read accessors of LayerStructure used by the rule engine.               *)
(***************************************************************************)
getConnections(conns) == conns

\* the layer recorded for a block id, undefined for an unregistered one
getBlockLayer(blks, id) == LayerOrUndefined(blks, id)

\* the entries of the block mapping in registration order
getAllBlocks(blks) == blks

RECURSIVE detectAllFrom(_, _, _, _)
\* one traversal per unvisited root, in registration order; each root
\* contributes the first cycle its traversal closes
detectAllFrom(keys, adj, i, visited) ==
  IF i > Len(keys)
  THEN <<>>
  ELSE IF keys[i] \notin visited
  THEN LET r == dfsDetectCycle(keys[i], adj, visited, {}, <<>>)
       IN (IF r.found THEN <<r.cycle>> ELSE <<>>)
            \o detectAllFrom(keys, adj, i + 1, r.visited)
  ELSE detectAllFrom(keys, adj, i + 1, visited)

detectAllCycles(blks, conns) ==
  detectAllFrom(MapKeys(blks), adjacencyList(conns), 1, {})

(***************************************************************************)
(* services/architecture-validator: the rules.  A violation's message is   *)
(* modelled by its details, and where one type has two messages by a token *)
(* for the message.                                                        *)
(***************************************************************************)
\* an ArchitectureValidator: its rule list and its rule configurations
ArchitectureValidator(rules, ruleConfigs) ==
  [rules |-> rules, ruleConfigs |-> ruleConfigs]

validateDependencyDirection(blks, conns) == <<>>

\* variant: one violation per block on a cycle
validateNoCyclicDependencyPerBlock(blks, conns) ==
  LET cycles == detectAllCycles(blks, conns)
      RECURSIVE perBlock(_)
      perBlock(i) ==
        IF i > Len(cycles) THEN <<>>
        ELSE [j \in 1..(Len(cycles[i]) - 1) |->
                Violation("CYCLIC_DEPENDENCY", cycles[i])] \o perBlock(i + 1)
  IN perBlock(1)

validateNoCyclicDependency(blks, conns) ==
  LET cycles == detectAllCycles(blks, conns)
  IN [i \in 1..Len(cycles) |-> Violation("CYCLIC_DEPENDENCY", cycles[i])]

PresentationToInfraViolation(from, to) ==
  [type |-> "PRESENTATION_TO_INFRA", from |-> from, to |-> to]

\* variant: every connection out of the Presentation layer is reported
validateNoPresentationToInfraAnyTarget(blks, conns) ==
  LET stored == getConnections(conns)
      RECURSIVE scan(_)
      scan(i) ==
        IF i > Len(stored) THEN <<>>
        ELSE LET connection == stored[i]
                 fromLayer == getBlockLayer(blks, connection.from)
             IN (IF fromLayer = Presentation
                 THEN <<PresentationToInfraViolation(connection.from,
                                                     connection.to)>>
                 ELSE <<>>) \o scan(i + 1)
  IN scan(1)

validateNoPresentationToInfra(blks, conns) ==
  LET stored == getConnections(conns)
      RECURSIVE scan(_)
      scan(i) ==
        IF i > Len(stored) THEN <<>>
        ELSE LET connection == stored[i]
                 fromLayer == getBlockLayer(blks, connection.from)
                 toLayer == getBlockLayer(blks, connection.to)
             IN (IF fromLayer = Presentation /\ toLayer = Infrastructure
                 THEN <<PresentationToInfraViolation(connection.from,
                                                     connection.to)>>
                 ELSE <<>>) \o scan(i + 1)
  IN scan(1)

(***************************************************************************)
(* Strings whose content is inspected are sequences of their characters.   *)
(***************************************************************************)
\* String.prototype.includes
Includes(s, sub) ==
  \E i \in 0..(Len(s) - Len(sub)) : SubSeq(s, i + 1, i + Len(sub)) = sub

\* variant: String.prototype.startsWith
StartsWith(s, sub) ==
  Len(sub) <= Len(s) /\ SubSeq(s, 1, Len(sub)) = sub

uiTypes ==
  <<<<"o", "n", "C", "l", "i", "c", "k">>,
    <<"o", "n", "S", "u", "b", "m", "i", "t">>,
    <<"o", "n", "C", "h", "a", "n", "g", "e">>,
    <<"o", "n", "F", "o", "c", "u", "s">>,
    <<"o", "n", "B", "l", "u", "r">>,
    <<"(", ")", " ", "=", ">", " ", "v", "o", "i", "d">>,
    <<"E", "v", "e", "n", "t", "H", "a", "n", "d", "l", "e", "r">>,
    <<"M", "o", "u", "s", "e", "E", "v", "e", "n", "t">>,
    <<"K", "e", "y", "b", "o", "a", "r", "d", "E", "v", "e", "n", "t">>,
    <<"F", "o", "r", "m", "E", "v", "e", "n", "t">>,
    <<"C", "h", "a", "n", "g", "e", "E", "v", "e", "n", "t">>,
    <<"F", "o", "c", "u", "s", "E", "v", "e", "n", "t">>>>

\* variant: the type must begin with a marker
isUIRelatedTypePrefix(type) ==
  \E k \in 1..Len(uiTypes) : StartsWith(type, uiTypes[k])

isUIRelatedType(type) ==
  \E k \in 1..Len(uiTypes) : Includes(type, uiTypes[k])

\* declared types of the properties a caller gives a block
\* 'string'
TypeString ==
  <<"s", "t", "r", "i", "n", "g">>

\* '() => void'
TypeVoidHandler ==
  <<"(", ")", " ", "=", ">", " ", "v", "o", "i", "d">>

\* '(e: MouseEvent) => void'
TypeMouseHandler ==
  <<"(", "e", ":", " ", "M", "o", "u", "s", "e", "E", "v", "e", "n", "t", ")", " ", "=", ">", " ", "v", "o", "i", "d">>

\* '(e) => void'
TypeArgHandler ==
  <<"(", "e", ")", " ", "=", ">", " ", "v", "o", "i", "d">>

PropertyTypes ==
  {TypeString, TypeVoidHandler, TypeMouseHandler, TypeArgHandler}

DTOPurityViolation(dto, property, type) ==
  [type |-> "DTO_PURITY_VIOLATION", dto |-> dto, property |-> property,
   propertyType |-> type]

validateDTOPurity(blks, conns) ==
  LET all == getAllBlocks(blks)
      RECURSIVE scanProperties(_, _)
      scanProperties(block, j) ==
        IF j > Len(block.properties) THEN <<>>
        ELSE LET property == block.properties[j]
             IN (IF isUIRelatedType(property.type)
                 THEN <<DTOPurityViolation(block.id, property.name,
                                           property.type)>>
                 ELSE <<>>) \o scanProperties(block, j + 1)
      RECURSIVE scanBlocks(_)
      scanBlocks(i) ==
        IF i > Len(all) THEN <<>>
        ELSE (IF all[i].block.type # "dto" THEN <<>>
              ELSE scanProperties(all[i].block, 1)) \o scanBlocks(i + 1)
  IN scanBlocks(1)

DefaultMaxMethods == 20
DefaultMaxLines == 200

\* (config.params?.key as number) || fallback: a missing key and the
\* number 0 are both falsy
ParamOr(config, key, fallback) ==
  IF key \notin DOMAIN config.params THEN fallback
  ELSE IF config.params[key] = 0 THEN fallback
  ELSE config.params[key]

TooManyMethodsViolation(service, methodCount, threshold) ==
  [type |-> "FAT_SERVICE", message |-> "too-many-methods",
   service |-> service, methodCount |-> methodCount,
   threshold |-> threshold]

MethodTooLongViolation(service, method, lines, threshold) ==
  [type |-> "FAT_SERVICE", message |-> "method-too-long",
   service |-> service, method |-> method, lines |-> lines,
   threshold |-> threshold]

validateNoFatService(ruleConfigs, blks, conns) ==
  LET config == ruleConfigs[NoFatService]
      maxMethods == ParamOr(config, "maxMethods", DefaultMaxMethods)
      maxLines == ParamOr(config, "maxLines", DefaultMaxLines)
      all == getAllBlocks(blks)
      RECURSIVE scanMethods(_, _)
      scanMethods(block, j) ==
        IF j > Len(block.methods) THEN <<>>
        ELSE LET method == block.methods[j]
             IN (IF method.lines > maxLines
                 THEN <<MethodTooLongViolation(block.id, method.name,
                                               method.lines, maxLines)>>
                 ELSE <<>>) \o scanMethods(block, j + 1)
      RECURSIVE scanBlocks(_)
      scanBlocks(i) ==
        IF i > Len(all) THEN <<>>
        ELSE (IF all[i].block.type # "service" THEN <<>>
              ELSE (IF Len(all[i].block.methods) > maxMethods
                    THEN <<TooManyMethodsViolation(
                             all[i].block.id, Len(all[i].block.methods),
                             maxMethods)>>
                    ELSE <<>>) \o scanMethods(all[i].block, 1))
             \o scanBlocks(i + 1)
  IN scanBlocks(1)

\* the switch on the rule; a rule without a validator yields nothing
validateRule(rule, ruleConfigs, blks, conns) ==
  CASE rule = NoDependencyViolation -> validateDependencyDirection(blks, conns)
    [] rule = NoCyclicDependency -> validateNoCyclicDependency(blks, conns)
    [] rule = NoPresentationToInfra
         -> validateNoPresentationToInfra(blks, conns)
    [] rule = NoUIInDTO -> validateDTOPurity(blks, conns)
    [] rule = NoFatService -> validateNoFatService(ruleConfigs, blks, conns)
    [] OTHER -> <<>>

RECURSIVE validateRules(_, _, _, _)
\* variant: the enabled flag of a rule's configuration is not consulted
validateRulesIgnoreEnabled(validator, i, blks, conns) ==
  IF i > Len(validator.rules) THEN <<>>
  ELSE validateRule(validator.rules[i], validator.ruleConfigs, blks, conns)
         \o validateRules(validator, i + 1, blks, conns)

\* the for-loop over this.rules, from position i on
validateRules(validator, i, blks, conns) ==
  IF i > Len(validator.rules) THEN <<>>
  ELSE LET rule == validator.rules[i]
           config == validator.ruleConfigs[rule]
       IN (IF ~config.enabled THEN <<>>
           ELSE validateRule(rule, validator.ruleConfigs, blks, conns))
            \o validateRules(validator, i + 1, blks, conns)

\* variant: validity is that of the last rule that ran
validateArchitectureLastRule(validator, blks, conns) ==
  LET violations == validateRules(validator, 1, blks, conns)
      score == calculateScore(violations)
  IN ValidationResult(
       validateRules(validator, Max(1, Len(validator.rules)), blks, conns)
         = <<>>,
       violations, score)

\* ArchitectureValidator.validate(structure) as a function of the graph
validateArchitecture(validator, blks, conns) ==
  LET violations == validateRules(validator, 1, blks, conns)
      score == calculateScore(violations)
  IN ValidationResult(Len(violations) = 0, violations, score)

ValidatorValidateOp == "ArchitectureValidator.validate"

\* variant: the violation list is kept by the validator between calls
validatorValidateKeepList(validator) ==
  LET result == validateArchitecture(validator, blocks, connections)
      kept == IF call.op = ValidatorValidateOp THEN ret.violations ELSE <<>>
  IN /\ call' = [op |-> ValidatorValidateOp, validator |-> validator]
     /\ ret' = ValidationResult(Len(kept \o result.violations) = 0,
                                kept \o result.violations,
                                calculateScore(kept \o result.violations))
     /\ UNCHANGED <<graph, vlist, vscore, session, usecase>>

\* variant: the connections of a reported cycle are dropped from the graph
validatorValidateDropCycles(validator) ==
  LET result == validateArchitecture(validator, blocks, connections)
  IN /\ call' = [op |-> ValidatorValidateOp, validator |-> validator]
     /\ ret' = result
     /\ connections' = IF result.isValid THEN connections ELSE <<>>
     /\ UNCHANGED <<layers, blocks, vlist, vscore, session, usecase>>

\* validator.validate(structure) on the graph built so far
validatorValidate(validator) ==
  /\ call' = [op |-> ValidatorValidateOp, validator |-> validator]
  /\ ret' = validateArchitecture(validator, blocks, connections)
  /\ UNCHANGED <<graph, vlist, vscore, session, usecase>>

(***************************************************************************)
(* Inputs of the rule engine: the validators a caller constructs.          *)
(***************************************************************************)
\* the rule list of the validator test suite
TestRules ==
  <<NoDependencyViolation, NoCyclicDependency, NoPresentationToInfra,
    NoUIInDTO, NoFatService>>

\* the test rule list with the rules of a set left out
RulesWithout(absent) == SelectSeq(TestRules, LAMBDA rule : rule \notin absent)

\* the default configurations with the rules of a set disabled
Disabled(rulesOff) ==
  [rule \in ValidationRule |->
     IF rule \in rulesOff
     THEN [DEFAULT_RULE_CONFIGS[rule] EXCEPT !.enabled = FALSE]
     ELSE DEFAULT_RULE_CONFIGS[rule]]

\* the default configurations with other parameters for the fat-service rule
WithFatServiceParams(params) ==
  [DEFAULT_RULE_CONFIGS EXCEPT ![NoFatService].params = params]

RuleValidators ==
  {ArchitectureValidator(TestRules, DEFAULT_RULE_CONFIGS),
   ArchitectureValidator(TestRules, Disabled({NoCyclicDependency})),
   ArchitectureValidator(TestRules, Disabled({NoPresentationToInfra})),
   ArchitectureValidator(RulesWithout({NoCyclicDependency}),
                         DEFAULT_RULE_CONFIGS),
   ArchitectureValidator(RulesWithout({NoPresentationToInfra}),
                         DEFAULT_RULE_CONFIGS),
   ArchitectureValidator(<<NoDomainLogicInController, NoCyclicDependency>>,
                         DEFAULT_RULE_CONFIGS)}

(***************************************************************************)
(* The engine with a rule engine run on the graph at any time.             *)
(***************************************************************************)
NextRules ==
  \/ \E layerId \in LayerId, block \in Blocks :
       addBlock(layerId, block) /\ GraphSize' <= MaxGraphSize
  \/ \E fromBlockId \in BlockIds, toBlockId \in BlockIds :
       /\ createConnection(fromBlockId, toBlockId)
       /\ GraphSize' <= MaxGraphSize
  \/ validate
  \/ \E validator \in RuleValidators : validatorValidate(validator)

SpecRules == Init /\ [][NextRules]_vars

(***************************************************************************)
(* Rings over three blocks of one layer, validated by the rule engine.     *)
(***************************************************************************)
\* stored connections explored between the three blocks
MaxRingConnections == 3

\* the connections of the rings A, A-B and A-B-C
RingPairs ==
  {<<"A", "A">>, <<"A", "B">>, <<"B", "A">>, <<"B", "C">>, <<"C", "A">>}

RingValidators ==
  {ArchitectureValidator(TestRules, DEFAULT_RULE_CONFIGS),
   ArchitectureValidator(TestRules, Disabled({NoCyclicDependency}))}

NextRing ==
  \/ \E block \in ServiceBlocks : addBlock(Application, block)
  \/ \E pair \in RingPairs :
       /\ createConnection(pair[1], pair[2])
       /\ Len(connections') <= MaxRingConnections
  \/ \E validator \in RingValidators : validatorValidate(validator)

SpecRing == Init /\ [][NextRing]_vars

(***************************************************************************)
(* Every graph over three blocks of one layer, validated by the rule       *)
(* engine: components with cycles of their own are built side by side.     *)
(***************************************************************************)
NextComponents ==
  \/ \E block \in ServiceBlocks : addBlock(Application, block)
  \/ \E fromBlockId \in ServiceIds, toBlockId \in ServiceIds :
       /\ createConnection(fromBlockId, toBlockId)
       /\ Len(connections') <= MaxCycleConnections
  \/ validatorValidate(ArchitectureValidator(TestRules, DEFAULT_RULE_CONFIGS))

SpecComponents == Init /\ [][NextComponents]_vars

(***************************************************************************)
(* Blocks with declared properties, validated by the rule engine.          *)
(***************************************************************************)
\* properties declared over all registered blocks
MaxProperties == 2

\* properties with each of the declared types; the name of a property says
\* nothing about its type
Properties ==
  {BlockProperty("id", TypeString), BlockProperty("onClick", TypeString),
   BlockProperty("onClick", TypeVoidHandler),
   BlockProperty("id", TypeMouseHandler),
   BlockProperty("handler", TypeArgHandler)}

PropertyLists == UNION {[1..n -> Properties] : n \in 0..MaxProperties}

PropertyBlocks ==
  {WithProperties(CodeBlock(b[1], b[2]), properties) :
     b \in {<<"UserDto", "dto">>, <<"UserService", "service">>},
     properties \in PropertyLists}

RECURSIVE TotalProperties(_)
TotalProperties(blks) ==
  IF blks = <<>> THEN 0
  ELSE Len(Head(blks).block.properties) + TotalProperties(Tail(blks))

PropertyValidators ==
  {ArchitectureValidator(TestRules, DEFAULT_RULE_CONFIGS),
   ArchitectureValidator(TestRules, Disabled({NoUIInDTO}))}

NextProperties ==
  \/ \E block \in PropertyBlocks :
       addBlock(Application, block) /\ TotalProperties(blocks') <= MaxProperties
  \/ \E validator \in PropertyValidators : validatorValidate(validator)

SpecProperties == Init /\ [][NextProperties]_vars

(***************************************************************************)
(* Blocks with methods, validated by the rule engine under several         *)
(* configurations of the fat-service thresholds.                           *)
(***************************************************************************)
\* n methods of the same length, named by their position
Methods(n, lines) == [i \in 1..n |-> BlockMethod(i, lines)]

MethodCounts == {0, 1, 2, 20, 21}

LineCounts == {10, 200, 201}

MethodLists ==
  {Methods(n, lines) : n \in MethodCounts, lines \in LineCounts}
    \cup {<<BlockMethod(1, 250), BlockMethod(2, 10), BlockMethod(3, 201)>>}

\* a service and a domain service, each with any of the method lists
ServicesWithMethods ==
  {WithMethods(CodeBlock("UserService", "service"), methods) :
     methods \in MethodLists}

DomainServicesWithMethods ==
  {WithMethods(CodeBlock("Pricing", "domain-service"), methods) :
     methods \in MethodLists}

FatServiceValidators ==
  {ArchitectureValidator(TestRules, DEFAULT_RULE_CONFIGS),
   ArchitectureValidator(TestRules, Disabled({NoFatService})),
   ArchitectureValidator(TestRules, WithFatServiceParams(NoParams)),
   ArchitectureValidator(TestRules,
                         WithFatServiceParams(FatServiceParams(1, 10))),
   ArchitectureValidator(TestRules,
                         WithFatServiceParams(FatServiceParams(0, 0))),
   ArchitectureValidator(TestRules,
                         WithFatServiceParams([maxMethods |-> 2]))}

NextMethods ==
  \/ \E block \in ServicesWithMethods : addBlock(Application, block)
  \/ \E block \in DomainServicesWithMethods : addBlock(Domain, block)
  \/ \E validator \in FatServiceValidators : validatorValidate(validator)

SpecMethods == Init /\ [][NextMethods]_vars

(***************************************************************************)
(* value-objects/score: the weighted composite score.  The arithmetic is   *)
(* that of IEEE 754 doubles.  A non-negative double below 128 is held      *)
(* exactly as a count of units of 2^-55, written in three limbs            *)
(* <<high, middle, low>> of 21 bits each; every operation computes the     *)
(* exact result and rounds it to 53 significant bits, ties to even.        *)
(***************************************************************************)
LimbBase == 2 ^ 21

\* the doubles nearest to 0.35, 0.25 and 0.15
WeightAccuracy == <<2867, 419430, 838860>>
WeightEfficiency == <<2048, 0, 0>>
WeightMaintainability == <<2048, 0, 0>>
WeightSpeed == <<1228, 1677721, 1258291>>

\* limbs that may exceed the base, with the carries propagated
Carry(high, middle, low) ==
  LET m == middle + (low \div LimbBase)
  IN <<high + (m \div LimbBase), m % LimbBase, low % LimbBase>>

RECURSIVE BitLength(_)
BitLength(n) == IF n = 0 THEN 0 ELSE 1 + BitLength(n \div 2)

\* number of bits from the leading one down to the unit
SignificantBits(x) ==
  IF x[1] > 0 THEN 42 + BitLength(x[1])
  ELSE IF x[2] > 0 THEN 21 + BitLength(x[2])
  ELSE BitLength(x[3])

\* the nearest double of an exact value: the bits below the 53 most
\* significant ones are rounded off, a tie going to the even neighbour
RoundToDouble(x) ==
  IF SignificantBits(x) <= 53 THEN x
  ELSE LET ulp == 2 ^ (SignificantBits(x) - 53)
           rest == x[3] % ulp
           up == \/ 2 * rest > ulp
                 \/ 2 * rest = ulp /\ (x[3] \div ulp) % 2 = 1
       IN Carry(x[1], x[2], x[3] - rest + (IF up THEN ulp ELSE 0))

\* n * w for an integer n in 0..100 and a double w
DoubleTimes(n, w) == RoundToDouble(Carry(n * w[1], n * w[2], n * w[3]))

\* x + y for two doubles
DoublePlus(x, y) == RoundToDouble(Carry(x[1] + y[1], x[2] + y[2], x[3] + y[3]))

\* Math.round: the nearest integer, a tie going up
MathRound(x) == (x[1] \div (2 ^ 13)) + ((x[1] \div (2 ^ 12)) % 2)

ErrScoreRange == "score-must-be-between-0-and-100"
ErrMetricRange == "metric-must-be-between-0-and-100"

Thrown(error) == [thrown |-> TRUE, error |-> error]

\* new Score(value)
Score(value) ==
  IF value < 0 \/ value > 100 THEN Thrown(ErrScoreRange)
  ELSE [thrown |-> FALSE, value |-> value]

Metrics(accuracy, efficiency, maintainability, speed) ==
  [accuracy |-> accuracy, efficiency |-> efficiency,
   maintainability |-> maintainability, speed |-> speed]

calculateClamped(metrics) ==
  LET clamp(value) == Max(0, Min(100, value))
  IN Score(MathRound(
       DoublePlus(
         DoublePlus(
           DoublePlus(DoubleTimes(clamp(metrics.accuracy), WeightAccuracy),
                      DoubleTimes(clamp(metrics.efficiency),
                                  WeightEfficiency)),
           DoubleTimes(clamp(metrics.maintainability),
                       WeightMaintainability)),
         DoubleTimes(clamp(metrics.speed), WeightSpeed))))

\* Score.calculate(metrics)
calculate(metrics) ==
  IF \E value \in {metrics.accuracy, metrics.efficiency,
                   metrics.maintainability, metrics.speed} :
       value < 0 \/ value > 100
  THEN Thrown(ErrMetricRange)
  ELSE LET weightedSum ==
             DoublePlus(
               DoublePlus(
                 DoublePlus(DoubleTimes(metrics.accuracy, WeightAccuracy),
                            DoubleTimes(metrics.efficiency,
                                        WeightEfficiency)),
                 DoubleTimes(metrics.maintainability,
                             WeightMaintainability)),
               DoubleTimes(metrics.speed, WeightSpeed))
       IN Score(MathRound(weightedSum))

ScoreCalculateOp == "Score.calculate"

scoreCalculate(metrics) ==
  /\ call' = [op |-> ScoreCalculateOp, metrics |-> metrics]
  /\ ret' = calculate(metrics)
  /\ UNCHANGED <<graph, vlist, vscore, session, usecase>>

\* every accuracy, alone and with a speed of 41, the four metric records of
\* the test suite, and values out of range on each side
MetricsInputs ==
  {Metrics(accuracy, 0, 0, speed) :
     accuracy \in -1..101, speed \in {0, 41, 101}}
    \cup {Metrics(100, 80, 90, 70), Metrics(0, 0, 0, 0),
          Metrics(100, 100, 100, 100), Metrics(85, 75, 82, 90)}

NextScoreCalculate == \E metrics \in MetricsInputs : scoreCalculate(metrics)

SpecScoreCalculate == Init /\ [][NextScoreCalculate]_vars

\* the doubles nearest to 1.05 and 1.15, then 1.5 and 0.5
Multiplier105 == <<8601, 1258291, 419432>>
Multiplier115 == <<9420, 1677721, 1258288>>
Multiplier150 == <<12288, 0, 0>>
Multiplier050 == <<4096, 0, 0>>

Bonus(type, multiplier) == [type |-> type, multiplier |-> multiplier]

\* score.addBonus(bonus) on a Score holding value
addBonus(value, bonus) ==
  LET newValue == DoubleTimes(value, bonus.multiplier)
  IN Score(MathRound(newValue))

ScoreAddBonusOp == "Score.addBonus"

\* the bonus is applied to the Score that the previous call returned
scoreAddBonus(bonus) ==
  /\ call.op \in {ScoreCalculateOp, ScoreAddBonusOp}
  /\ ~ret.thrown
  /\ call' = [op |-> ScoreAddBonusOp, value |-> ret.value, bonus |-> bonus]
  /\ ret' = addBonus(ret.value, bonus)
  /\ UNCHANGED <<graph, vlist, vscore, session, usecase>>

Bonuses ==
  {Bonus("NO_HINTS", Multiplier105), Bonus("NO_ANTIPATTERNS", Multiplier105),
   Bonus("NO_HINTS", Multiplier115), Bonus("NO_ANTIPATTERNS", Multiplier150),
   Bonus("NO_HINTS", Multiplier050)}

\* the ends of the range and the values next to them
RangeEnds == {-1, 0, 100, 101}

\* four equal metrics give that value as the score; the other records have
\* every metric in turn out of range, on each side
BonusMetrics ==
  {Metrics(value, value, value, value) : value \in 0..100}
    \cup {Metrics(-10, 80, 80, 80), Metrics(110, 80, 80, 80)}
    \cup {Metrics(accuracy, efficiency, maintainability, speed) :
            accuracy \in RangeEnds, efficiency \in RangeEnds,
            maintainability \in RangeEnds, speed \in RangeEnds}

NextBonus ==
  \/ \E metrics \in BonusMetrics : scoreCalculate(metrics)
  \/ \E bonus \in Bonuses : scoreAddBonus(bonus)

SpecBonus == Init /\ [][NextBonus]_vars

(***************************************************************************)
(* The number arithmetic of GameSession.calculateScore: IEEE 754 doubles   *)
(* of any magnitude.  A number is sign, significand and binary exponent;   *)
(* the significand is a natural number held in limbs of 15 bits, least     *)
(* significant first, so that a product of two limbs stays below 2^31.     *)
(* Every operation computes the exact result and rounds it to the nearest  *)
(* number of 53 significant bits, a tie going to the even neighbour.       *)
(***************************************************************************)
BigBase == 2 ^ 15

BigLimb(a, i) == IF 1 <= i /\ i <= Len(a) THEN a[i] ELSE 0

\* without the zero limbs at the most significant end
BigTrim(a) ==
  SubSeq(a, 1, CHOOSE n \in 0..Len(a) :
                 /\ n = 0 \/ a[n] # 0
                 /\ \A i \in (n + 1)..Len(a) : a[i] = 0)

\* 0 <= n < BigBase ^ 2
BigOfInt(n) == BigTrim(<<n % BigBase, n \div BigBase>>)

RECURSIVE BigToInt(_)
BigToInt(a) ==
  IF Len(a) = 0 THEN 0 ELSE a[1] + BigBase * BigToInt(Tail(a))

\* a + b: limb i takes a carry when a limb below it overflows and every
\* limb between the two is full
BigPlus(a, b) ==
  IF Len(a) = 0 THEN b
  ELSE IF Len(b) = 0 THEN a
  ELSE
  LET n == Max(Len(a), Len(b))
      sum == [i \in 1..(n + 1) |-> BigLimb(a, i) + BigLimb(b, i)]
      carry == [i \in 1..(n + 1) |->
                  IF \E j \in 1..(i - 1) :
                       /\ sum[j] >= BigBase
                       /\ \A k \in (j + 1)..(i - 1) : sum[k] >= BigBase - 1
                  THEN 1 ELSE 0]
  IN BigTrim([i \in 1..(n + 1) |-> (sum[i] + carry[i]) % BigBase])

\* a - b for a >= b: limb i lends when a limb below it is negative and no
\* limb between the two is positive
BigMinus(a, b) ==
  IF Len(a) = 0 \/ Len(b) = 0 THEN a
  ELSE
  LET n == Max(Len(a), Len(b))
      difference == [i \in 1..n |-> BigLimb(a, i) - BigLimb(b, i)]
      borrow == [i \in 1..n |->
                   IF \E j \in 1..(i - 1) :
                        /\ difference[j] < 0
                        /\ \A k \in (j + 1)..(i - 1) : difference[k] <= 0
                   THEN 1 ELSE 0]
  IN BigTrim([i \in 1..n |->
                (difference[i] - borrow[i] + BigBase) % BigBase])

\* a * b for a and b of at most four limbs, which hold a significand of 53
\* bits: column i sums the low halves of the limb products of weight i and
\* the high halves of those of weight i - 1
BigTimes(a, b) ==
  IF Len(a) = 0 \/ Len(b) = 0 THEN <<>>
  ELSE
  LET product(j, i) == BigLimb(a, j) * BigLimb(b, i - j + 1)
      column == [i \in 1..8 |->
                   (product(1, i) % BigBase) + (product(2, i) % BigBase)
                     + (product(3, i) % BigBase) + (product(4, i) % BigBase)
                     + (product(1, i - 1) \div BigBase)
                     + (product(2, i - 1) \div BigBase)
                     + (product(3, i - 1) \div BigBase)
                     + (product(4, i - 1) \div BigBase)]
  IN BigPlus(BigTrim([i \in 1..8 |-> column[i] % BigBase]),
             BigTrim([i \in 1..9 |->
                        IF i = 1 THEN 0 ELSE column[i - 1] \div BigBase]))

\* a * 2^bits
BigShiftLeft(a, bits) ==
  IF Len(a) = 0 \/ bits = 0 THEN a
  ELSE
  LET n == bits \div 15
      k == 2 ^ (bits % 15)
  IN BigTrim([i \in 1..(Len(a) + n + 1) |->
                ((BigLimb(a, i - n) * k) % BigBase)
                  + ((BigLimb(a, i - n - 1) * k) \div BigBase)])

\* a mod 2^bits
BigLow(a, bits) ==
  LET n == bits \div 15
      k == 2 ^ (bits % 15)
  IN BigTrim([i \in 1..(n + 1) |->
                IF i <= n THEN BigLimb(a, i) ELSE BigLimb(a, i) % k])

\* floor(a / 2^bits)
BigShiftRight(a, bits) ==
  IF Len(a) = 0 \/ bits = 0 THEN a
  ELSE
  LET n == bits \div 15
      k == 2 ^ (bits % 15)
  IN BigTrim([i \in 1..Max(0, Len(a) - n) |->
                (BigLimb(a, i + n) \div k)
                  + ((BigLimb(a, i + n + 1) % k) * (BigBase \div k))])

RECURSIVE BigLessFrom(_, _, _)
BigLessFrom(a, b, i) ==
  IF i = 0 THEN FALSE
  ELSE IF a[i] # b[i] THEN a[i] < b[i]
  ELSE BigLessFrom(a, b, i - 1)

\* a < b for trimmed a and b
BigLess(a, b) ==
  IF Len(a) # Len(b) THEN Len(a) < Len(b) ELSE BigLessFrom(a, b, Len(a))

BigBitLength(a) ==
  IF Len(a) = 0 THEN 0 ELSE 15 * (Len(a) - 1) + BitLength(a[Len(a)])

Number(negative, significand, exponent) ==
  [negative |-> negative, significand |-> significand,
   exponent |-> exponent]

\* the double nearest to significand * 2^exponent
NumberRound(negative, significand, exponent) ==
  IF BigBitLength(significand) <= 53
  THEN Number(negative, significand, exponent)
  ELSE LET drop == BigBitLength(significand) - 53
           kept == BigShiftRight(significand, drop)
           rest == BigLow(significand, drop)
           half == BigShiftLeft(<<1>>, drop - 1)
           up == \/ BigLess(half, rest)
                 \/ rest = half /\ kept[1] % 2 = 1
       IN Number(negative, IF up THEN BigPlus(kept, <<1>>) ELSE kept,
                 exponent + drop)

NumberOfInt(n) == Number(FALSE, BigOfInt(n), 0)

\* x < y for two numbers that are not negative
NumberLess(x, y) ==
  IF x.exponent <= y.exponent
  THEN BigLess(x.significand,
               BigShiftLeft(y.significand, y.exponent - x.exponent))
  ELSE BigLess(BigShiftLeft(x.significand, x.exponent - y.exponent),
               y.significand)

\* x * y
NumberTimes(x, y) ==
  IF x.negative = y.negative
  THEN NumberRound(FALSE, BigTimes(x.significand, y.significand),
                   x.exponent + y.exponent)
  ELSE NumberRound(TRUE, BigTimes(x.significand, y.significand),
                   x.exponent + y.exponent)

\* x + y for two numbers that are not negative
NumberPlus(x, y) ==
  IF x.exponent <= y.exponent
  THEN NumberRound(FALSE,
                   BigPlus(x.significand,
                           BigShiftLeft(y.significand,
                                        y.exponent - x.exponent)),
                   x.exponent)
  ELSE NumberRound(FALSE,
                   BigPlus(BigShiftLeft(x.significand,
                                        x.exponent - y.exponent),
                           y.significand),
                   y.exponent)

\* x - y for two numbers that are not negative
NumberMinus(x, y) ==
  IF NumberLess(x, y)
  THEN IF x.exponent <= y.exponent
       THEN NumberRound(TRUE,
                        BigMinus(BigShiftLeft(y.significand,
                                              y.exponent - x.exponent),
                                 x.significand),
                        x.exponent)
       ELSE NumberRound(TRUE,
                        BigMinus(y.significand,
                                 BigShiftLeft(x.significand,
                                              x.exponent - y.exponent)),
                        y.exponent)
  ELSE IF x.exponent <= y.exponent
       THEN NumberRound(FALSE,
                        BigMinus(x.significand,
                                 BigShiftLeft(y.significand,
                                              y.exponent - x.exponent)),
                        x.exponent)
       ELSE NumberRound(FALSE,
                        BigMinus(BigShiftLeft(x.significand,
                                              x.exponent - y.exponent),
                                 y.significand),
                        y.exponent)

\* BigBase^e mod d for e in 0..5, at positions 1..6
BigBasePowers(d) ==
  LET m1 == BigBase % d
      m2 == (m1 * m1) % d
      m3 == (m2 * m1) % d
      m4 == (m2 * m2) % d
      m5 == (m4 * m1) % d
  IN <<1 % d, m1, m2, m3, m4, m5>>

\* n / d for integers 0 <= n < BigBase and 0 < d < BigBase, by long division:
\* the quotient is taken to 75 fractional bits, which are five limbs, and a
\* remainder is kept as one more bit below them
NumberDivide(n, d) ==
  LET power == BigBasePowers(d)
      remainder == [e \in 0..5 |-> ((n % d) * power[e + 1]) % d]
      quotient == BigTrim([i \in 1..6 |->
                             IF i = 6 THEN n \div d
                             ELSE (remainder[5 - i] * BigBase) \div d])
  IN IF remainder[5] = 0 THEN NumberRound(FALSE, quotient, -75)
     ELSE NumberRound(FALSE,
                      BigPlus(BigShiftLeft(quotient, 1), <<1>>), -76)

\* Math.max(x, y) for x that is not negative
NumberMax(x, y) == IF y.negative \/ NumberLess(y, x) THEN x ELSE y

\* Math.round(x) for x that is not negative: floor(x + 1/2)
NumberMathRound(x) ==
  IF x.exponent >= 0
  THEN BigToInt(BigShiftLeft(x.significand, x.exponent))
  ELSE BigToInt(BigShiftRight(
         BigPlus(x.significand, BigShiftLeft(<<1>>, (-x.exponent) - 1)),
         -x.exponent))

(***************************************************************************)
(* models/challenge.ts.  A value that may be null or undefined is the     *)
(* sequence of that value, empty when it is absent.                        *)
(***************************************************************************)
Challenge(difficulty, timeLimit, hints) ==
  [difficulty |-> difficulty, timeLimit |-> timeLimit, hints |-> hints]

getTimeLimit(challenge) == challenge.timeLimit

\* index i of the array is position i + 1 of the sequence
getHint(challenge, index) ==
  IF index < 0 \/ index >= Len(challenge.hints) THEN <<>>
  ELSE <<challenge.hints[index + 1]>>

\* a decimal literal is the double nearest to it
Literal10 == NumberOfInt(1)
Literal12 == NumberDivide(12, 10)
Literal15 == NumberDivide(15, 10)
Literal20 == NumberOfInt(2)
Literal02 == NumberDivide(2, 10)
Literal03 == NumberDivide(3, 10)
Literal07 == NumberDivide(7, 10)
Literal005 == NumberDivide(5, 100)
Literal05 == NumberDivide(5, 10)

getDifficultyMultiplier(challenge) ==
  CASE challenge.difficulty = "beginner" -> Literal10
    [] challenge.difficulty = "intermediate" -> Literal12
    [] challenge.difficulty = "advanced" -> Literal15
    [] challenge.difficulty = "expert" -> Literal20

(***************************************************************************)
(* models/game-session.ts                                                  *)
(***************************************************************************)
InProgress == "in_progress"
Paused == "paused"
Completed == "completed"
Abandoned == "abandoned"

GameState == {InProgress, Paused, Completed, Abandoned}

ErrSessionCompleted == "session-is-already-completed"
ErrSessionAbandoned == "session-is-abandoned"
ErrPauseCompleted == "completed-session-cannot-be-paused"
ErrPauseAbandoned == "abandoned-session-cannot-be-paused"
ErrResumeNotPaused == "only-a-paused-session-can-be-resumed"

\* the fields of a session that the constructor leaves
GameSession(challenge) ==
  [challenge |-> challenge, state |-> InProgress, solution |-> <<>>,
   score |-> 0, validationResult |-> <<>>, completedAt |-> <<>>,
   usedHints |-> <<>>,
   statistics |-> [totalActions |-> 0, actionTypes |-> <<>>,
                   validationCount |-> 0, timeSpent |-> <<>>]]

\* a LayerStructure handed to the session
LayerStructure(blks, conns) == [blocks |-> blks, connections |-> conns]

\* x || 0 for the score of a result
ScoreOrZero(result) ==
  IF ToString(result.score) = ToString(NoScore) THEN 0 ELSE result.score

\* variant: the bonus grows with the time spent, 1 + (0.2 * (timeSpent /
\* timeLimit))
TimeBonusGrowing(timeSpent, timeLimit) ==
  NumberPlus(Literal10,
             NumberTimes(Literal02, NumberDivide(timeSpent, timeLimit)))

\* 1 + (0.2 * (1 - timeSpent / timeLimit))
TimeBonus(timeSpent, timeLimit) ==
  NumberPlus(Literal10,
             NumberTimes(Literal02,
                         NumberMinus(Literal10,
                                     NumberDivide(timeSpent, timeLimit))))

\* Math.max(0.7, 1 - (overTime / timeLimit) * 0.3)
TimePenalty(timeSpent, timeLimit) ==
  LET overTime == timeSpent - timeLimit
  IN NumberMax(Literal07,
               NumberMinus(Literal10,
                           NumberTimes(NumberDivide(overTime, timeLimit),
                                       Literal03)))

\* Math.max(0.5, 1 - (usedHints.length * 0.05))
HintFactor(usedHints) ==
  LET hintPenalty ==
        NumberMinus(Literal10,
                    NumberTimes(NumberOfInt(Len(usedHints)), Literal005))
  IN NumberMax(Literal05, hintPenalty)

\* baseScore before it is rounded
BaseScore(result, challenge, timeSpent, usedHints) ==
  LET difficulty ==
        NumberTimes(NumberOfInt(ScoreOrZero(result)),
                    getDifficultyMultiplier(challenge))
      timeLimit == getTimeLimit(challenge)
      timed ==
        IF timeSpent = <<>> THEN difficulty
        ELSE IF timeSpent[1] <= timeLimit
        THEN NumberTimes(difficulty, TimeBonus(timeSpent[1], timeLimit))
        ELSE NumberTimes(difficulty, TimePenalty(timeSpent[1], timeLimit))
  IN NumberTimes(timed, HintFactor(usedHints))

\* calculateScore(timeSpent) of a session s: the session it leaves
calculateSessionScore(s, timeSpent) ==
  IF s.validationResult = <<>>
  THEN [s EXCEPT !.score = 0]
  ELSE [s EXCEPT
          !.score = NumberMathRound(BaseScore(s.validationResult[1],
                                              s.challenge, timeSpent,
                                              s.usedHints)),
          !.statistics.timeSpent = IF timeSpent = <<>> THEN @ ELSE timeSpent]

StartOp == "GameSession.start"
SubmitSolutionOp == "GameSession.submitSolution"
UseHintOp == "GameSession.useHint"
PauseOp == "GameSession.pause"
ResumeOp == "GameSession.resume"
AbandonOp == "GameSession.abandon"

\* GameSession.start(userId, challenge), once
start(challenge) ==
  /\ call.op = "create"
  /\ call' = [op |-> StartOp]
  /\ session' = GameSession(challenge)
  /\ ret' = GameSession(challenge)
  /\ UNCHANGED <<graph, vlist, vscore, usecase>>

\* variant: a completed session takes a further submission
submitSolutionOverwrite(solution, options, now) ==
  /\ call.op # "create"
  /\ call' = [op |-> SubmitSolutionOp, solution |-> solution,
              options |-> options]
  /\ IF session.state = Abandoned
     THEN /\ ret' = ResultFail(ErrSessionAbandoned)
          /\ UNCHANGED session
     ELSE LET validator ==
                ArchitectureValidator(TestRules, DEFAULT_RULE_CONFIGS)
              submitted ==
                [session EXCEPT
                   !.validationResult =
                     <<validateArchitecture(validator, solution.blocks,
                                            solution.connections)>>,
                   !.solution = <<solution>>,
                   !.state = Completed,
                   !.completedAt = <<now>>]
          IN /\ session' = calculateSessionScore(submitted, options)
             /\ ret' = ResultOk(<<>>)
  /\ UNCHANGED <<graph, vlist, vscore, usecase>>

\* variant: the submission is validated and scored but the session is left
\* in the state it was in
submitSolutionKeepsState(solution, options, now) ==
  /\ call.op # "create"
  /\ call' = [op |-> SubmitSolutionOp, solution |-> solution,
              options |-> options]
  /\ IF session.state = Completed
     THEN /\ ret' = ResultFail(ErrSessionCompleted)
          /\ UNCHANGED session
     ELSE IF session.state = Abandoned
     THEN /\ ret' = ResultFail(ErrSessionAbandoned)
          /\ UNCHANGED session
     ELSE LET validator ==
                ArchitectureValidator(TestRules, DEFAULT_RULE_CONFIGS)
              submitted ==
                [session EXCEPT
                   !.validationResult =
                     <<validateArchitecture(validator, solution.blocks,
                                            solution.connections)>>,
                   !.solution = <<solution>>,
                   !.completedAt = <<now>>]
          IN /\ session' = calculateSessionScore(submitted, options)
             /\ ret' = ResultOk(<<>>)
  /\ UNCHANGED <<graph, vlist, vscore, usecase>>

\* options is the optional timeSpent, now the value of new Date()
submitSolution(solution, options, now) ==
  /\ call.op # "create"
  /\ call' = [op |-> SubmitSolutionOp, solution |-> solution,
              options |-> options]
  /\ IF session.state = Completed
     THEN /\ ret' = ResultFail(ErrSessionCompleted)
          /\ UNCHANGED session
     ELSE IF session.state = Abandoned
     THEN /\ ret' = ResultFail(ErrSessionAbandoned)
          /\ UNCHANGED session
     ELSE LET validator ==
                ArchitectureValidator(TestRules, DEFAULT_RULE_CONFIGS)
              submitted ==
                [session EXCEPT
                   !.validationResult =
                     <<validateArchitecture(validator, solution.blocks,
                                            solution.connections)>>,
                   !.solution = <<solution>>,
                   !.state = Completed,
                   !.completedAt = <<now>>]
          IN /\ session' = calculateSessionScore(submitted, options)
             /\ ret' = ResultOk(<<>>)
  /\ UNCHANGED <<graph, vlist, vscore, usecase>>

\* variant: an index is not looked up among the used hints
useHintAgain(index) ==
  /\ call.op # "create"
  /\ call' = [op |-> UseHintOp, index |-> index]
  /\ IF session.state # InProgress
     THEN /\ ret' = <<>>
          /\ UNCHANGED session
     ELSE LET hint == getHint(session.challenge, index)
          IN /\ IF hint # <<>> /\ hint[1] # ""
                THEN session' = [session EXCEPT !.usedHints = Append(@, index)]
                ELSE UNCHANGED session
             /\ ret' = hint
  /\ UNCHANGED <<graph, vlist, vscore, usecase>>

\* useHint(index): the hint or nothing; a text that is falsy, the empty
\* string, is returned and not recorded
useHint(index) ==
  /\ call.op # "create"
  /\ call' = [op |-> UseHintOp, index |-> index]
  /\ IF session.state # InProgress
     THEN /\ ret' = <<>>
          /\ UNCHANGED session
     ELSE IF \E i \in 1..Len(session.usedHints) : session.usedHints[i] = index
     THEN /\ ret' = <<>>
          /\ UNCHANGED session
     ELSE LET hint == getHint(session.challenge, index)
          IN /\ IF hint # <<>> /\ hint[1] # ""
                THEN session' = [session EXCEPT !.usedHints = Append(@, index)]
                ELSE UNCHANGED session
             /\ ret' = hint
  /\ UNCHANGED <<graph, vlist, vscore, usecase>>

pause ==
  /\ call.op # "create"
  /\ call' = [op |-> PauseOp]
  /\ IF session.state = Completed
     THEN /\ ret' = ResultFail(ErrPauseCompleted)
          /\ UNCHANGED session
     ELSE IF session.state = Abandoned
     THEN /\ ret' = ResultFail(ErrPauseAbandoned)
          /\ UNCHANGED session
     ELSE /\ session' = [session EXCEPT !.state = Paused]
          /\ ret' = ResultOk(<<>>)
  /\ UNCHANGED <<graph, vlist, vscore, usecase>>

\* variant: a session is resumed from whatever state it is in
resumeAnyState ==
  /\ call.op # "create"
  /\ call' = [op |-> ResumeOp]
  /\ session' = [session EXCEPT !.state = InProgress]
  /\ ret' = ResultOk(<<>>)
  /\ UNCHANGED <<graph, vlist, vscore, usecase>>

resume ==
  /\ call.op # "create"
  /\ call' = [op |-> ResumeOp]
  /\ IF session.state # Paused
     THEN /\ ret' = ResultFail(ErrResumeNotPaused)
          /\ UNCHANGED session
     ELSE /\ session' = [session EXCEPT !.state = InProgress]
          /\ ret' = ResultOk(<<>>)
  /\ UNCHANGED <<graph, vlist, vscore, usecase>>

\* variant: a completed session is abandoned like any other
abandonAlways(now) ==
  /\ call.op # "create"
  /\ call' = [op |-> AbandonOp]
  /\ session' = [session EXCEPT !.state = Abandoned,
                                !.completedAt = <<now>>]
  /\ ret' = <<>>
  /\ UNCHANGED <<graph, vlist, vscore, usecase>>

abandon(now) ==
  /\ call.op # "create"
  /\ call' = [op |-> AbandonOp]
  /\ IF session.state # Completed
     THEN session' = [session EXCEPT !.state = Abandoned,
                                     !.completedAt = <<now>>]
     ELSE UNCHANGED session
  /\ ret' = <<>>
  /\ UNCHANGED <<graph, vlist, vscore, usecase>>

(***************************************************************************)
(* One session from its start on: the challenge of the test suite with a   *)
(* third hint whose text is empty, the structures the tests submit.        *)
(***************************************************************************)
HintPureDto == "a-dto-only-transfers-data"
HintNoHandlers == "leave-ui-event-handlers-out"

SessionChallenges ==
  {Challenge("beginner", 180, <<HintPureDto, HintNoHandlers, "">>)}

\* a DTO placed in the Application layer, with its properties
DtoStructure(properties) ==
  LayerStructure(
    <<[block |-> WithProperties(CodeBlock("UserDto", "dto"), properties),
       layerId |-> Application]>>, <<>>)

SessionSolutions ==
  {LayerStructure(<<>>, <<>>),
   DtoStructure(<<BlockProperty("id", TypeString),
                  BlockProperty("name", TypeString)>>),
   DtoStructure(<<BlockProperty("id", TypeString),
                  BlockProperty("onClick", TypeVoidHandler)>>)}

\* no options, and the times spent of the tests for a limit of 180
SessionOptions == {<<>>, <<10>>, <<200>>}

\* values of new Date()
Dates == {1, 2}

HintIndexes == {-1, 0, 1, 2, 3, 99}

NextSession ==
  \/ \E challenge \in SessionChallenges : start(challenge)
  \/ \E solution \in SessionSolutions, options \in SessionOptions,
        now \in Dates : submitSolution(solution, options, now)
  \/ \E index \in HintIndexes : useHint(index)
  \/ pause
  \/ resume
  \/ \E now \in Dates : abandon(now)

SpecSession == Init /\ [][NextSession]_vars

(***************************************************************************)
(* Sessions that take the hints of a challenge in order and submit: every  *)
(* difficulty, twelve hints, structures of every score from 100 down to 0. *)
(* The session is followed up to its completion.                           *)
(***************************************************************************)
Difficulty == {"beginner", "intermediate", "advanced", "expert"}

HintChallenges ==
  {Challenge(difficulty, 180, [i \in 1..12 |-> HintPureDto]) :
     difficulty \in Difficulty}

\* a DTO with zero to seven properties of a handler type: the validation
\* scores 100, 85, 70, 55, 40, 25, 10 and 0
HintSolutions ==
  {DtoStructure([i \in 1..n |-> BlockProperty("onClick", TypeVoidHandler)]) :
     n \in 0..7}

HintOptions == {<<>>, <<10>>, <<90>>, <<179>>, <<200>>, <<1000>>}

NextHints ==
  \/ \E challenge \in HintChallenges : start(challenge)
  \/ \E solution \in HintSolutions, options \in HintOptions :
       submitSolution(solution, options, 1) /\ ret'.isSuccess
  \/ useHint(Len(session.usedHints)) /\ session.state = InProgress

SpecHints == Init /\ [][NextHints]_vars

(***************************************************************************)
(* Sessions that submit after a time spent on either side of the limit:    *)
(* limits of 180 and of 7 seconds, times around the limit, around twice    *)
(* the limit (where the penalty reaches its floor) and far beyond it.      *)
(***************************************************************************)
TimeLimits == {7, 180}

TimeChallenges ==
  {Challenge(difficulty, timeLimit, <<HintPureDto, HintNoHandlers>>) :
     difficulty \in Difficulty, timeLimit \in TimeLimits}

TimesSpent ==
  {0, 1, 3, 6, 7, 8, 10, 13, 14, 15, 90, 179, 180, 181, 200, 359, 360, 361,
   1000}

TimeOptions == {<<timeSpent>> : timeSpent \in TimesSpent}

NextTime ==
  \/ \E challenge \in TimeChallenges : start(challenge)
  \/ \E solution \in HintSolutions, options \in TimeOptions :
       submitSolution(solution, options, 1) /\ ret'.isSuccess
  \/ useHint(Len(session.usedHints)) /\ session.state = InProgress

SpecTime == Init /\ [][NextTime]_vars

(***************************************************************************)
(* Properties of the graph model.                                          *)
(***************************************************************************)
\* layer recorded for a registered block id
LayerOf(blks, id) == MapGet(blks, id).layerId

\* the ids registered in the block mapping
RegisteredIds == {blocks[i].block.id : i \in 1..Len(blocks)}

\* the direction rules as a table: illegal ordered layer pairs and the
\* message each one is refused with
IllegalPairMessage(fromLayer, toLayer) ==
  CASE fromLayer = Domain /\ toLayer \in {Presentation, Application,
                                          Infrastructure}
         -> ErrDomainDependsOnOther
    [] fromLayer = Presentation /\ toLayer = Infrastructure
         -> ErrPresentationToInfra
    [] fromLayer = Presentation /\ toLayer = Domain
         -> ErrPresentationToDomain
    [] fromLayer = Application /\ toLayer = Presentation
         -> ErrApplicationToPresentation
    [] fromLayer = Infrastructure /\ toLayer = Presentation
         -> ErrInfraToUpper
    [] fromLayer = Infrastructure /\ toLayer = Application
         -> ErrInfraToUpper
    [] OTHER -> "legal"

\* the eight legal ordered layer pairs
LegalPairs ==
  {<<Presentation, Presentation>>, <<Application, Application>>,
   <<Domain, Domain>>, <<Infrastructure, Infrastructure>>,
   <<Presentation, Application>>, <<Application, Domain>>,
   <<Application, Infrastructure>>, <<Infrastructure, Domain>>}

\* C1: for two registered blocks, createConnection(from, to) fails, with
\* the message of the matching rule and without recording anything, exactly
\* when the (source layer, target layer) pair is illegal; for each of the
\* eight legal pairs it succeeds and appends the one connection (from, to)
\* at the end of the connection list.
C1_CreateConnectionFollowsTable ==
  [][call'.op = "createConnection"
     => \A f \in RegisteredIds, t \in RegisteredIds :
          createConnection(f, t)
          => LET fromLayer == LayerOf(blocks, f)
                 toLayer == LayerOf(blocks, t)
             IN IF <<fromLayer, toLayer>> \in LegalPairs
                THEN /\ ret' = ResultOk(<<Connection(f, t)>>)
                     /\ connections' = Append(connections, Connection(f, t))
                     /\ IllegalPairMessage(fromLayer, toLayer) = "legal"
                ELSE /\ ret' =
                          ResultFail(IllegalPairMessage(fromLayer, toLayer))
                     /\ IllegalPairMessage(fromLayer, toLayer) # "legal"
                     /\ connections' = connections]_vars

\* a cross-layer connection has been appended behind an earlier one
C1_Witness ==
  /\ call.op = "createConnection"
  /\ ret.isSuccess
  /\ Len(connections) = 2
  /\ LayerOf(blocks, connections[2].from) = Infrastructure
  /\ LayerOf(blocks, connections[2].to) = Domain

\* the compatibility of block types and layers, type by type
CompatiblePlacement(type, layerId) ==
  CASE type = "ui-component" -> layerId = Presentation
    [] type \in {"entity", "value-object", "domain-service"}
         -> layerId = Domain
    [] type = "repository-impl" -> layerId = Infrastructure
    [] type \in {"service", "usecase", "dto", "repository", "controller"}
         -> TRUE

\* C2: addBlock(layer, block) succeeds if and only if the block's type is
\* compatible with the layer; after a success the block id is in that
\* layer's block set and the block is registered with that layer.
C2_AddBlockIffCompatible ==
  [][\A layerId \in LayerId, block \in TypedBlocks :
       addBlock(layerId, block)
       => /\ ret'.isSuccess <=> CompatiblePlacement(block.type, layerId)
          /\ ret'.isSuccess
             => /\ block.id \in layers'[layerId]
                /\ MapHas(blocks', block.id)
                /\ MapGet(blocks', block.id) =
                     [block |-> block, layerId |-> layerId]]_vars

\* a domain service has been placed in the Domain layer
C2_Witness ==
  /\ call.op = "addBlock"
  /\ ret.isSuccess
  /\ "domain-service" \in layers[Domain]
  /\ MapHas(blocks, "domain-service")

\* C5: a failed addBlock or createConnection changes nothing: the layers'
\* block sets, the block mapping and the connection list are the same
\* before and after the failing call.
C5_FailedCallChangesNothing ==
  [][(call'.op \in {"addBlock", "createConnection"} /\ ~ret'.isSuccess)
     => UNCHANGED graph]_vars

\* a connection out of the Domain layer has been refused on a graph that
\* already holds a connection
C5_Witness ==
  /\ call.op = "createConnection"
  /\ ret = ResultFail(ErrDomainDependsOnOther)
  /\ Len(connections) = 1

\* C6: both endpoints of every stored connection are registered block ids.
C6_ConnectionEndpointsRegistered ==
  \A i \in 1..Len(connections) :
    MapHas(blocks, connections[i].from) /\ MapHas(blocks, connections[i].to)

\* two connections are stored while a block of the inputs is unregistered
C6_Witness ==
  /\ Len(connections) = 2
  /\ connections[1].from # connections[1].to
  /\ \E id \in BlockIds : ~MapHas(blocks, id)

\* C7: every registered block id is a member of exactly one layer's block
\* set, and that layer is the one recorded for it in the block mapping.
C7_BlockInExactlyOneLayer ==
  \A i \in 1..Len(blocks) :
    {l \in LayerId : blocks[i].block.id \in layers[l]} = {blocks[i].layerId}

\* C8: once a block is registered in a layer, no later operation changes
\* the layer recorded for that block id.
C8_LayerAssignmentFixed ==
  [][\A id \in BlockIds :
       MapHas(blocks, id)
       => MapHas(blocks', id) /\ LayerOf(blocks', id) = LayerOf(blocks, id)]_vars

\* C9: createConnection(from, to) returns the not-found failure whenever
\* from or to is not a registered block id, and records no connection.
C9_UnregisteredEndpointNotFound ==
  [][call'.op = "createConnection"
     => \A f \in BlockIds, t \in BlockIds :
          (f \notin RegisteredIds \/ t \notin RegisteredIds)
          => (createConnection(f, t)
              => /\ ret' = ResultFail(ErrBlockMissing)
                 /\ connections' = connections)]_vars

\* not-found has been returned while a block is registered, so also for a
\* call naming one registered and one unregistered block
C9_Witness ==
  /\ call.op = "createConnection"
  /\ ret = ResultFail(ErrBlockMissing)
  /\ Len(blocks) = 2
  /\ Len(connections) = 1

(***************************************************************************)
(* Properties of the cycle detector.                                       *)
(***************************************************************************)
EdgeSet(conns) == {<<conns[i].from, conns[i].to>> : i \in 1..Len(conns)}

RECURSIVE Closure(_, _)
\* pairs joined by a path of at least one edge, by n rounds of composition
Closure(R, n) ==
  IF n = 0 THEN R
  ELSE Closure(R \cup {<<x[1][1], x[2][2]>> :
                         x \in {y \in R \X R : y[1][2] = y[2][1]}}, n - 1)

\* some block reaches itself along one or more stored connections
HasDirectedCycle(conns) ==
  \E e \in Closure(EdgeSet(conns), Len(conns)) : e[1] = e[2]

\* C3: validate() returns isValid = false with a CYCLIC_DEPENDENCY violation
\* if and only if the stored connections contain a directed cycle (a
\* self-connection included); on an acyclic graph it returns isValid = true
\* with an empty violation list.
C3_ValidateDetectsExactlyCycles ==
  call.op = "validate"
  => IF HasDirectedCycle(connections)
     THEN /\ ~ret.isValid
          /\ \E i \in 1..Len(ret.violations) :
               ret.violations[i].type = "CYCLIC_DEPENDENCY"
     ELSE /\ ret.isValid
          /\ ret.violations = <<>>

\* a cycle has been reported that the first registered block is not part of
C3_Witness ==
  /\ call.op = "validate"
  /\ ~ret.isValid
  /\ Len(blocks) = 3
  /\ \A j \in 1..Len(ret.violations[1].cycle) :
       ret.violations[1].cycle[j] # blocks[1].block.id

\* C10: every reported cycle path [v0, ..., vk] has k >= 1, v0 = vk,
\* v0..v(k-1) pairwise distinct and every consecutive pair a stored
\* connection; blocks A, B, C registered in that order with connections
\* A->B, B->C, C->A give [A, B, C, A], and a single self-connection on X
\* gives [X, X].
C10_ReportedCycleIsClosedSimplePath ==
  call.op = "validate"
  => /\ \A i \in 1..Len(ret.violations) :
          LET c == ret.violations[i].cycle
              k == Len(c) - 1
          IN /\ k >= 1
             /\ c[1] = c[k + 1]
             /\ \A a \in 1..k, b \in 1..k : a # b => c[a] # c[b]
             /\ \A j \in 1..k : <<c[j], c[j + 1]>> \in EdgeSet(connections)
     /\ (/\ MapKeys(blocks) = <<"A", "B", "C">>
         /\ connections = <<Connection("A", "B"), Connection("B", "C"),
                            Connection("C", "A")>>)
        => ret.violations =
             <<Violation("CYCLIC_DEPENDENCY", <<"A", "B", "C", "A">>)>>
     /\ \A x \in ServiceIds :
          connections = <<Connection(x, x)>>
          => ret.violations = <<Violation("CYCLIC_DEPENDENCY", <<x, x>>)>>

\* the three-block cycle has been validated and reported as [A, B, C, A]
C10_Witness ==
  /\ call.op = "validate"
  /\ MapKeys(blocks) = <<"A", "B", "C">>
  /\ connections = <<Connection("A", "B"), Connection("B", "C"),
                     Connection("C", "A")>>
  /\ ~ret.isValid
  /\ ret.violations[1].cycle = <<"A", "B", "C", "A">>

(***************************************************************************)
(* Properties of the violation-penalty score.                              *)
(***************************************************************************)
CountOfType(violations, types) ==
  Cardinality({i \in 1..Len(violations) : violations[i].type \in types})

\* the penalties of a violation list, summed type by type
PenaltySum(violations) ==
  30 * CountOfType(violations, {"CYCLIC_DEPENDENCY"})
    + 20 * CountOfType(violations, {"DEPENDENCY_VIOLATION"})
    + 15 * CountOfType(violations, {"DTO_PURITY_VIOLATION"})
    + 15 * CountOfType(violations, {"PRESENTATION_TO_INFRA"})
    + 10 * CountOfType(violations, {"FAT_SERVICE"})
    + 5 * CountOfType(violations,
                      ViolationTypes \ {"CYCLIC_DEPENDENCY",
                        "DEPENDENCY_VIOLATION", "DTO_PURITY_VIOLATION",
                        "PRESENTATION_TO_INFRA", "FAT_SERVICE"})

\* C4: the score of a violation list is max(0, min(100, 100 - sum of the
\* penalties)), with 30, 20, 15, 15, 10 per violation of the five named
\* types and 5 for any other; it is an integer in [0, 100].
C4_ScoreIsClampedPenaltySum ==
  call.op = "calculateScore"
  => LET raw == 100 - PenaltySum(vlist)
     IN /\ vscore = (IF raw < 0 THEN 0 ELSE IF raw > 100 THEN 100 ELSE raw)
        /\ vscore \in 0..100

\* four cyclic dependencies, whose penalties exceed 100, have been scored 0
C4_Witness ==
  /\ call.op = "calculateScore"
  /\ Len(vlist) = 4
  /\ \A i \in 1..Len(vlist) : vlist[i].type = "CYCLIC_DEPENDENCY"
  /\ vscore = 0

(***************************************************************************)
(* Properties of the rule engine.                                          *)
(***************************************************************************)
\* the rule is in the validator's rule list and its configuration enables it
RuleActive(validator, rule) ==
  /\ \E i \in 1..Len(validator.rules) : validator.rules[i] = rule
  /\ validator.ruleConfigs[rule].enabled

\* the connections are the n connections of one ring through n blocks
IsSimpleRing(conns) ==
  LET n == Len(conns)
      nodes == {conns[i].from : i \in 1..n} \cup {conns[i].to : i \in 1..n}
  IN /\ n >= 1
     /\ Cardinality(nodes) = n
     /\ \A v \in nodes :
          /\ Cardinality({i \in 1..n : conns[i].from = v}) = 1
          /\ Cardinality({i \in 1..n : conns[i].to = v}) = 1
     /\ \A u \in nodes, v \in nodes : <<u, v>> \in Closure(EdgeSet(conns), n)

\* no connection runs from Presentation to Infrastructure and no block
\* declares properties or methods
BreachesNoOtherRule(blks, conns) ==
  /\ \A i \in 1..Len(conns) :
       ~(/\ LayerOf(blks, conns[i].from) = Presentation
         /\ LayerOf(blks, conns[i].to) = Infrastructure)
  /\ \A i \in 1..Len(blks) :
       blks[i].block.properties = <<>> /\ blks[i].block.methods = <<>>

\* C11: on a graph whose connections form exactly one simple directed cycle
\* of n >= 1 blocks and that breaches no other rule, the rule engine with
\* the no-cyclic-dependency rule enabled returns exactly one violation, of
\* type CYCLIC_DEPENDENCY, and the score 70.
C11_SingleRingOneViolationScore70 ==
  (/\ call.op = ValidatorValidateOp
   /\ RuleActive(call.validator, NoCyclicDependency)
   /\ IsSimpleRing(connections)
   /\ BreachesNoOtherRule(blocks, connections))
  => /\ Len(ret.violations) = 1
     /\ ret.violations[1].type = "CYCLIC_DEPENDENCY"
     /\ ret.score = 70
     /\ ~ret.isValid

\* the ring through three blocks has been validated and scored 70
C11_Witness ==
  /\ call.op = ValidatorValidateOp
  /\ RuleActive(call.validator, NoCyclicDependency)
  /\ Len(connections) = 3
  /\ IsSimpleRing(connections)
  /\ Len(ret.violations) = 1
  /\ ret.score = 70

\* C12: in every result of a validation call, of the rule engine or of the
\* graph model itself, isValid is true if and only if the violation list is
\* empty.
C12_ValidIffNoViolations ==
  call.op \in {"validate", ValidatorValidateOp}
  => (ret.isValid <=> ret.violations = <<>>)

\* the rule engine has returned an invalid result with a violation while
\* the last rule of its list had nothing to report
C12_Witness ==
  /\ call.op = ValidatorValidateOp
  /\ call.validator.rules = TestRules
  /\ ~ret.isValid
  /\ Len(ret.violations) = 1
  /\ ret.violations[1].type = "CYCLIC_DEPENDENCY"

\* the stored connections whose (source layer, target layer) pair is not legal
IllegalStoredConnections(blks, conns) ==
  SelectSeq(conns,
            LAMBDA c : <<LayerOf(blks, c.from), LayerOf(blks, c.to)>>
                         \notin LegalPairs)

\* C13: with the dependency-direction rule enabled, the rule engine returns
\* one dependency-direction violation for every stored connection whose
\* (source layer, target layer) pair is illegal, however it came to be
\* stored, and none for a legal connection.
C13_IllegalStoredConnectionReported ==
  (/\ call.op = ValidatorValidateOp
   /\ RuleActive(call.validator, NoDependencyViolation))
  => Len(SelectSeq(ret.violations,
                   LAMBDA v : v.type = "DEPENDENCY_VIOLATION"))
       = Len(IllegalStoredConnections(blocks, connections))

\* the rule a violation type is produced by
ProducingRule(type) ==
  CASE type = "DEPENDENCY_VIOLATION" -> NoDependencyViolation
    [] type = "CYCLIC_DEPENDENCY" -> NoCyclicDependency
    [] type = "PRESENTATION_TO_INFRA" -> NoPresentationToInfra
    [] type = "DTO_PURITY_VIOLATION" -> NoUIInDTO
    [] type = "FAT_SERVICE" -> NoFatService

\* C14: the rule engine never returns a violation of a rule whose
\* configuration is disabled or that is absent from its rule list; with the
\* no-cyclic-dependency rule disabled a cyclic graph yields no
\* CYCLIC_DEPENDENCY violation.
C14_NoViolationOfInactiveRule ==
  call.op = ValidatorValidateOp
  => \A i \in 1..Len(ret.violations) :
       RuleActive(call.validator, ProducingRule(ret.violations[i].type))

\* a cyclic graph has been validated with the no-cyclic-dependency rule
\* listed but disabled, and no cycle was reported
C14_Witness ==
  /\ call.op = ValidatorValidateOp
  /\ NoCyclicDependency \in {call.validator.rules[i] :
                               i \in 1..Len(call.validator.rules)}
  /\ ~call.validator.ruleConfigs[NoCyclicDependency].enabled
  /\ HasDirectedCycle(connections)
  /\ \A i \in 1..Len(ret.violations) :
       ret.violations[i].type # "CYCLIC_DEPENDENCY"

PresentationToInfraConnections(blks, conns) ==
  SelectSeq(conns,
            LAMBDA c : /\ LayerOf(blks, c.from) = Presentation
                       /\ LayerOf(blks, c.to) = Infrastructure)

\* C17: with the no-presentation-to-infrastructure rule enabled, the rule
\* engine returns exactly one PRESENTATION_TO_INFRA violation for each stored
\* connection from a Presentation block to an Infrastructure block, in the
\* order of the connections, and none for any other connection.
C17_OneViolationPerPresentationToInfra ==
  (/\ call.op = ValidatorValidateOp
   /\ RuleActive(call.validator, NoPresentationToInfra))
  => LET reported ==
           SelectSeq(ret.violations,
                     LAMBDA v : v.type = "PRESENTATION_TO_INFRA")
         offending == PresentationToInfraConnections(blocks, connections)
     IN /\ Len(reported) = Len(offending)
        /\ \A i \in 1..Len(offending) :
             /\ reported[i].from = offending[i].from
             /\ reported[i].to = offending[i].to

\* a stored connection from Presentation to Infrastructure has been reported
\* while the graph holds a block of another layer
C17_Witness ==
  /\ call.op = ValidatorValidateOp
  /\ RuleActive(call.validator, NoPresentationToInfra)
  /\ Len(PresentationToInfraConnections(blocks, connections)) = 1
  /\ Len(connections) = 1
  /\ \E i \in 1..Len(ret.violations) :
       ret.violations[i].type = "PRESENTATION_TO_INFRA"

\* the declared types of the inputs that contain one of the UI markers:
\* '() => void' is a marker itself, '(e: MouseEvent) => void' contains
\* 'MouseEvent'; 'string' and '(e) => void' contain none
MarkedTypes == {TypeVoidHandler, TypeMouseHandler}

MarkedProperties(block) ==
  SelectSeq(block.properties, LAMBDA p : p.type \in MarkedTypes)

\* C18: with the DTO-purity rule enabled, the rule engine returns exactly
\* one DTO_PURITY_VIOLATION for each property of each DTO block whose
\* declared type contains a UI marker, in the order of the properties, and
\* none for a DTO property without a marker or for a block of another type.
C18_OneViolationPerMarkedDtoProperty ==
  (/\ call.op = ValidatorValidateOp
   /\ RuleActive(call.validator, NoUIInDTO))
  => LET reported ==
           SelectSeq(ret.violations,
                     LAMBDA v : v.type = "DTO_PURITY_VIOLATION")
     IN /\ \A j \in 1..Len(reported) : MapHas(blocks, reported[j].dto)
        /\ \A i \in 1..Len(blocks) :
             LET block == blocks[i].block
                 forBlock == SelectSeq(reported, LAMBDA v : v.dto = block.id)
                 marked == MarkedProperties(block)
             IN IF block.type = "dto"
                THEN /\ Len(forBlock) = Len(marked)
                     /\ \A j \in 1..Len(marked) :
                          /\ forBlock[j].property = marked[j].name
                          /\ forBlock[j].propertyType = marked[j].type
                ELSE forBlock = <<>>

\* a DTO with a property onClick of type 'string' and a property id of type
\* '(e: MouseEvent) => void' has been validated: the one violation is for id
C18_Witness ==
  /\ call.op = ValidatorValidateOp
  /\ RuleActive(call.validator, NoUIInDTO)
  /\ MapHas(blocks, "UserDto")
  /\ MapGet(blocks, "UserDto").block.properties =
       <<BlockProperty("onClick", TypeString),
         BlockProperty("id", TypeMouseHandler)>>
  /\ Len(ret.violations) = 1
  /\ ret.violations[1].property = "id"
  /\ ret.score = 85

\* the threshold a configuration gives for a key, or the default of the key
ConfiguredOr(config, key, fallback) ==
  IF key \in DOMAIN config.params THEN config.params[key] ELSE fallback

\* C19: with the no-fat-service rule enabled and the thresholds taken from
\* its configuration (20 and 200 where none is configured), each Service
\* block yields one too-many-methods violation exactly when it has more
\* than maxMethods methods, and one method-too-long violation for each of
\* its methods of more than maxLines lines; other blocks yield nothing.
C19_FatServiceThresholdsFromConfiguration ==
  (/\ call.op = ValidatorValidateOp
   /\ RuleActive(call.validator, NoFatService))
  => LET config == call.validator.ruleConfigs[NoFatService]
         maxMethods == ConfiguredOr(config, "maxMethods", 20)
         maxLines == ConfiguredOr(config, "maxLines", 200)
         reported ==
           SelectSeq(ret.violations, LAMBDA v : v.type = "FAT_SERVICE")
     IN \A i \in 1..Len(blocks) :
          LET block == blocks[i].block
              forBlock ==
                SelectSeq(reported, LAMBDA v : v.service = block.id)
              tooMany ==
                SelectSeq(forBlock,
                          LAMBDA v : v.message = "too-many-methods")
              tooLong ==
                SelectSeq(forBlock, LAMBDA v : v.message = "method-too-long")
              longMethods ==
                SelectSeq(block.methods, LAMBDA m : m.lines > maxLines)
          IN IF block.type = "service"
             THEN /\ Len(tooMany) =
                       (IF Len(block.methods) > maxMethods THEN 1 ELSE 0)
                  /\ Len(tooLong) = Len(longMethods)
                  /\ \A j \in 1..Len(longMethods) :
                       tooLong[j].method = longMethods[j].name
             ELSE forBlock = <<>>

(***************************************************************************)
(* Properties of the weighted composite score.                             *)
(***************************************************************************)
\* C20: for integer metrics in [0, 100], Score.calculate returns the
\* half-up rounding of accuracy*0.35 + efficiency*0.25 +
\* maintainability*0.25 + speed*0.15, that is floor((35*accuracy +
\* 25*efficiency + 25*maintainability + 15*speed + 50) / 100), an integer
\* in [0, 100].
C20_CalculateIsHalfUpWeightedSum ==
  (/\ call.op = ScoreCalculateOp
   /\ \A value \in {call.metrics.accuracy, call.metrics.efficiency,
                    call.metrics.maintainability, call.metrics.speed} :
        value \in 0..100)
  => /\ ~ret.thrown
     /\ ret.value =
          (35 * call.metrics.accuracy + 25 * call.metrics.efficiency
             + 25 * call.metrics.maintainability + 15 * call.metrics.speed
             + 50) \div 100
     /\ ret.value \in 0..100

(***************************************************************************)
(* Properties of the bonuses and of the failures of the score.             *)
(***************************************************************************)
\* the multiplier of a bonus in hundredths
Hundredths(multiplier) ==
  CASE multiplier = Multiplier105 -> 105
    [] multiplier = Multiplier115 -> 115
    [] multiplier = Multiplier150 -> 150
    [] multiplier = Multiplier050 -> 50

\* C21: each bonus applied to a Score gives the half-up rounding of the
\* value times the multiplier, rounded at that step: the new value is
\* floor((value * hundredths + 50) / 100) whenever a Score is returned; 80
\* with a bonus of 1.05 gives 84 and 84 with a bonus of 1.05 gives 88.
C21_BonusIsHalfUpProductEachStep ==
  (call.op = ScoreAddBonusOp /\ ~ret.thrown)
  => /\ ret.value =
          (call.value * Hundredths(call.bonus.multiplier) + 50) \div 100
     /\ (call.value = 80 /\ call.bonus.multiplier = Multiplier105)
          => ret.value = 84
     /\ (call.value = 84 /\ call.bonus.multiplier = Multiplier105)
          => ret.value = 88

\* the examples of the claim do evaluate as stated
C21_ExampleReached ==
  /\ call.op = ScoreAddBonusOp
  /\ call.value = 84
  /\ call.bonus.multiplier = Multiplier105
  /\ ~ret.thrown
  /\ ret.value = 88

\* the metrics of a record that lie outside [0, 100]
OutOfRange(metrics) ==
  {name \in DOMAIN metrics : metrics[name] < 0 \/ metrics[name] > 100}

\* C22: Score.calculate with at least one metric below 0 or above 100
\* fails with the out-of-range condition of the metrics and returns no
\* Score, whichever metric it is and whatever the other three are.
C22_OutOfRangeMetricFails ==
  (call.op = ScoreCalculateOp /\ OutOfRange(call.metrics) # {})
  => /\ ret.thrown
     /\ ret.error = ErrMetricRange
     /\ "value" \notin DOMAIN ret

C22_Witness ==
  /\ call.op = ScoreCalculateOp
  /\ OutOfRange(call.metrics) = {"maintainability"}
  /\ call.metrics.maintainability = 101
  /\ call.metrics.accuracy = 100
  /\ ret.thrown

\* C23: no engine operation ends in a thrown error: what addBlock,
\* createConnection, validate, Score.calculate and Score.addBonus hand
\* back is always a value, a failure being a value that says so.
C23_NoThrownError == ~("thrown" \in DOMAIN ret /\ ret.thrown)

\* a bonus whose rounded product exceeds 100 ends in the thrown range error
C23_BonusThrows ==
  /\ call.op = ScoreAddBonusOp
  /\ call.value = 80
  /\ call.bonus.multiplier = Multiplier150
  /\ ret = Thrown(ErrScoreRange)

(***************************************************************************)
(* Properties of the cycles reported by the rule engine.                   *)
(***************************************************************************)
Range(seq) == {seq[i] : i \in DOMAIN seq}

\* the blocks that reach id and are reached from it, id included
Component(conns, id) ==
  LET paths == Closure(EdgeSet(conns), Len(conns))
  IN {id} \cup {other \in {e[1] : e \in paths} :
                  <<id, other>> \in paths /\ <<other, id>> \in paths}

\* the strongly connected components that contain a cycle
CyclicComponents(conns) ==
  {Component(conns, e[1]) :
     e \in {f \in Closure(EdgeSet(conns), Len(conns)) : f[1] = f[2]}}

\* the cycles of the CYCLIC_DEPENDENCY violations of a result
ReportedCycles(result) ==
  {result.violations[i].cycle :
     i \in {j \in 1..Len(result.violations) :
              result.violations[j].type = "CYCLIC_DEPENDENCY"}}

RECURSIVE Traversals(_, _, _, _)
\* one record per traversal root: the blocks its traversal visited and the
\* cycle at which it stopped, if any
Traversals(keys, adj, i, visited) ==
  IF i > Len(keys)
  THEN <<>>
  ELSE IF keys[i] \notin visited
  THEN LET r == dfsDetectCycle(keys[i], adj, visited, {}, <<>>)
       IN <<[root |-> keys[i], touched |-> r.visited \ visited,
             found |-> r.found, cycle |-> r.cycle]>>
            \o Traversals(keys, adj, i + 1, r.visited)
  ELSE Traversals(keys, adj, i + 1, visited)

C25_ResultCarriesScore ==
  call.op \in {"validate", ValidatorValidateOp}
  => ToString(ret.score) \in {ToString(score) : score \in 0..100}

\* a result of the rule engine, whose score is a number
C25_RuleEngineScoreReached ==
  /\ call.op = ValidatorValidateOp
  /\ ret.score \in 0..99

(***************************************************************************)
(* Properties of the game session.                                         *)
(***************************************************************************)
\* C26: GameSession.submitSolution on a session that is already Completed
\* returns a failure and leaves the session's state, stored solution,
\* validation result, score and completion time unchanged.
C26_CompletedRejectsSubmit ==
  [][(call'.op = SubmitSolutionOp /\ session.state = Completed)
       => /\ ~ret'.isSuccess
          /\ session'.state = session.state
          /\ session'.solution = session.solution
          /\ session'.validationResult = session.validationResult
          /\ session'.score = session.score
          /\ session'.completedAt = session.completedAt]_vars

\* a completed session has refused a solution other than the stored one
C26_SecondSubmitRefused ==
  /\ call.op = SubmitSolutionOp
  /\ ~ret.isSuccess
  /\ ret.error = ErrSessionCompleted
  /\ session.state = Completed
  /\ session.solution # <<call.solution>>

\* C27: GameSession.submitSolution is accepted only while the session is
\* InProgress: in every other state, Paused included, it fails and the
\* session is not completed by it.
C27_SubmitOnlyInProgress ==
  [][(call'.op = SubmitSolutionOp /\ session.state # InProgress)
       => /\ ~ret'.isSuccess
          /\ session'.state = session.state]_vars

\* C28: GameSession.pause succeeds from InProgress and leaves the session
\* Paused, and fails without changing the session when it is Completed or
\* Abandoned; GameSession.resume succeeds only from Paused and then leaves
\* the session InProgress, and from every other state it fails without
\* changing the session.
C28_PauseAndResume ==
  [][/\ call'.op = PauseOp
          => /\ session.state = InProgress
                  => ret'.isSuccess /\ session'.state = Paused
             /\ session.state \in {Completed, Abandoned}
                  => ~ret'.isSuccess /\ session' = session
     /\ call'.op = ResumeOp
          => /\ ret'.isSuccess <=> session.state = Paused
             /\ session.state = Paused => session'.state = InProgress
             /\ session.state # Paused => session' = session]_vars

\* a session was paused and has been resumed
C28_Resumed ==
  /\ call.op = ResumeOp
  /\ ret.isSuccess
  /\ session.state = InProgress

\* C29: GameSession.useHint(i) returns the hint text and records i only
\* when the session is InProgress, i is a valid index into the challenge's
\* hints and i has not been used before (and it does both then, for a hint
\* whose text is not empty); in every other case it returns null and leaves
\* the used-hint list unchanged.  After every step the used-hint list holds
\* no duplicate and no out-of-range index.
C29_HintOnlyWhenFresh ==
  [][/\ call'.op = UseHintOp
          => LET index == call'.index
                 hints == session.challenge.hints
                 fresh == /\ session.state = InProgress
                          /\ index \in 0..(Len(hints) - 1)
                          /\ index \notin Range(session.usedHints)
             IN /\ ~fresh
                     => /\ ret' = <<>>
                        /\ session'.usedHints = session.usedHints
                /\ session'.usedHints # session.usedHints
                     => /\ fresh
                        /\ ret' = <<hints[index + 1]>>
                        /\ session'.usedHints
                             = Append(session.usedHints, index)
                /\ (fresh /\ hints[index + 1] # "")
                     => /\ ret' = <<hints[index + 1]>>
                        /\ session'.usedHints
                             = Append(session.usedHints, index)
     /\ LET used == session'.usedHints
        IN /\ \A i, j \in 1..Len(used) : i # j => used[i] # used[j]
           /\ \A i \in 1..Len(used) :
                used[i] \in 0..(Len(session'.challenge.hints) - 1)]_vars

\* with two hints used, a further request for one of them got null
C29_RepeatedHintRefused ==
  /\ call.op = UseHintOp
  /\ session.state = InProgress
  /\ Len(session.usedHints) = 2
  /\ call.index \in Range(session.usedHints)
  /\ ret = <<>>

\* C30: for two otherwise identical submissions (same solution, same
\* challenge, same timeSpent), a session that used h >= 1 hints before it
\* submitted gets a final score strictly lower than a session that used
\* none, whenever the hint-free final score is positive; and the hints
\* alone never take more than half of the score before it is rounded.
C30_HintsLowerScore ==
  (call.op = SubmitSolutionOp /\ ret.isSuccess)
  => LET result == session.validationResult[1]
         hintFree == BaseScore(result, session.challenge, call.options, <<>>)
         hinted == BaseScore(result, session.challenge, call.options,
                             session.usedHints)
     IN /\ (Len(session.usedHints) >= 1 /\ NumberMathRound(hintFree) > 0)
             => session.score < NumberMathRound(hintFree)
        /\ ~NumberLess(hinted, NumberTimes(Literal05, hintFree))

\* the time multiplier of calculateScore
TimeMultiplier(timeSpent, timeLimit) ==
  IF timeSpent <= timeLimit THEN TimeBonus(timeSpent, timeLimit)
  ELSE TimePenalty(timeSpent, timeLimit)

\* C31: for otherwise identical submissions with timeSpent >= 0 the final
\* session score never increases as timeSpent grows; the time multiplier
\* lies between 1 and 1.2 when timeSpent <= timeLimit and between 0.7 and 1
\* when timeSpent > timeLimit.
C31_ScoreFallsWithTime ==
  (call.op = SubmitSolutionOp /\ ret.isSuccess)
  => LET timeSpent == call.options[1]
         timeLimit == getTimeLimit(session.challenge)
         multiplier == TimeMultiplier(timeSpent, timeLimit)
     IN /\ \A later \in {t \in TimesSpent : t >= timeSpent} :
             NumberMathRound(BaseScore(session.validationResult[1],
                                       session.challenge, <<later>>,
                                       session.usedHints))
               <= session.score
        /\ timeSpent <= timeLimit
             => /\ ~NumberLess(multiplier, Literal10)
                /\ ~NumberLess(Literal12, multiplier)
        /\ timeSpent > timeLimit
             => /\ ~NumberLess(multiplier, Literal07)
                /\ ~NumberLess(Literal10, multiplier)

\* a submission at the limit scored less than one before it would have and
\* more than one after it
C31_Witness ==
  /\ call.op = SubmitSolutionOp
  /\ ret.isSuccess
  /\ call.options[1] = getTimeLimit(session.challenge)
  /\ session.score
       < NumberMathRound(BaseScore(session.validationResult[1],
                                   session.challenge, <<1>>,
                                   session.usedHints))
  /\ session.score
       > NumberMathRound(BaseScore(session.validationResult[1],
                                   session.challenge, <<1000>>,
                                   session.usedHints))

(***************************************************************************)
(* The application layer: SubmitSolutionUseCase and                        *)
(* StartGameSessionUseCase.  The repositories are interfaces, so what a    *)
(* lookup answers and whether a save resolves or rejects are inputs of the *)
(* step that awaits them.  A string the code trims is the sequence of its  *)
(* characters; an optional value is <<>> (undefined) or <<v>>.             *)
(***************************************************************************)
MAX_RETRY_COUNT == 3

\* String.prototype.trim
trim(s) ==
  LET kept == {i \in 1..Len(s) : s[i] # " "}
  IN IF kept = {} THEN <<>>
     ELSE SubSeq(s, CHOOSE i \in kept : \A j \in kept : i <= j,
                 CHOOSE i \in kept : \A j \in kept : j <= i)

\* !value || value.trim() === ''
IsBlank(value) == value = <<>> \/ value[1] = <<>> \/ trim(value[1]) = <<>>

\* an Error and an ApplicationError, told apart by instanceof
Error(message) ==
  [name |-> "Error", message |-> message, code |-> "none", statusCode |-> 0]

ApplicationError(message, code, statusCode) ==
  [name |-> "ApplicationError", message |-> message, code |-> code,
   statusCode |-> statusCode]

ErrSessionIdRequired == "session-id-is-required"
ErrPlayerIdRequired == "player-id-is-required"
ErrSolutionRequired == "solution-is-required"
ErrLayersInvalid == "layers-are-invalid"
ErrConnectionsInvalid == "connections-are-invalid"
ErrSessionNotFound == "session-not-found"
ErrNoPermission == "no-permission"
ErrInvalidConnection == "invalid-connection"
ErrSessionSaveFailed == "saving-the-session-failed"
ErrUserIdRequired == "user-id-is-required"
ErrChallengeIdRequired == "challenge-id-is-required"
ErrActiveSessionExists == "an-active-session-already-exists"
ErrChallengeNotFound == "challenge-not-found"
ErrSessionStartFailed == "starting-the-session-failed"

\* the message of the error a repository rejects with
DbError == "DB Error"

\* `text: ${lastError?.message}`: the text, then the message
SaveFailedMessage(lastError) == <<ErrSessionSaveFailed, lastError.message>>

\* one turn of the loop of saveWithRetry, after repository.save attempt
\* number attempt has resolved (ok) or rejected: the method returns, goes
\* on to the next attempt, or leaves the loop and throws.  A loop that
\* went on past MAX_RETRY_COUNT is the variant.
saveWithRetryUnbounded(attempt, ok) ==
  IF ok THEN "return"
  ELSE IF attempt <= MAX_RETRY_COUNT THEN "retry"
  ELSE "throw"

saveWithRetry(attempt, ok) ==
  IF ok THEN "return"
  ELSE IF attempt + 1 <= MAX_RETRY_COUNT THEN "retry"
  ELSE "throw"

\* the error thrown after the loop
SaveFailedError(lastError) ==
  ApplicationError(SaveFailedMessage(lastError), "SESSION_SAVE_FAILED", 500)

(***************************************************************************)
(* SubmitSolutionUseCase (unnamed/part_007)                                *)
(***************************************************************************)
validateInput(input) ==
  IF IsBlank(input.sessionId) THEN ResultFail(ErrSessionIdRequired)
  ELSE IF IsBlank(input.playerId) THEN ResultFail(ErrPlayerIdRequired)
  ELSE IF input.solution = <<>> THEN ResultFail(ErrSolutionRequired)
  ELSE IF input.solution[1].layers = <<>> THEN ResultFail(ErrLayersInvalid)
  ELSE IF input.solution[1].connections = <<>>
  THEN ResultFail(ErrConnectionsInvalid)
  ELSE ResultOk(<<>>)

\* LayerStructure.create()
LayerStructureCreate ==
  [layers |-> [l \in LayerId |-> {}], blocks |-> <<>>, connections |-> <<>>]

\* structure.addBlock(layerId, block) on a structure the use case holds:
\* the result and the structure left
structureAddBlock(structure, layerId, block) ==
  LET validationResult == validateBlockPlacement(layerId, block) IN
  IF ~validationResult.isSuccess
  THEN [result |-> validationResult, structure |-> structure]
  ELSE IF layerId \notin DOMAIN structure.layers
  THEN [result |-> ResultFail(ErrLayerMissing), structure |-> structure]
  ELSE [result |-> ResultOk(<<>>),
        structure |->
          [structure EXCEPT
             !.layers[layerId] = @ \cup {block.id},
             !.blocks = MapSet(@, [block |-> block, layerId |-> layerId])]]

\* structure.createConnection(fromBlockId, toBlockId), likewise
structureCreateConnection(structure, fromBlockId, toBlockId) ==
  IF ~MapHas(structure.blocks, fromBlockId)
       \/ ~MapHas(structure.blocks, toBlockId)
  THEN [result |-> ResultFail(ErrBlockMissing), structure |-> structure]
  ELSE LET fromBlock == MapGet(structure.blocks, fromBlockId)
           toBlock == MapGet(structure.blocks, toBlockId)
           validationResult ==
             validateDependency(fromBlock.layerId, toBlock.layerId)
       IN IF ~validationResult.isSuccess
          THEN [result |-> validationResult, structure |-> structure]
          ELSE [result |-> ResultOk(<<Connection(fromBlockId, toBlockId)>>),
                structure |->
                  [structure EXCEPT
                     !.connections =
                       Append(@, Connection(fromBlockId, toBlockId))]]

\* `${type}-${name}-${Date.now()}`
BlockIdOf(type, name, now) == <<type, name, now>>

\* new CodeBlock(name, BlockType.Service) at the clock reading now
ServiceBlock(name, now) ==
  CodeBlock(BlockIdOf("service", name, now), "service")

\* the loop over input.solution.layers from index i on: the error it
\* returns with, if any, the structure and the blockIdMap it leaves
RECURSIVE addLayers(_, _, _, _, _)
addLayers(payload, i, structure, blockIdMap, now) ==
  IF i > Len(payload)
  THEN [failure |-> <<>>, structure |-> structure,
        blockIdMap |-> blockIdMap]
  ELSE LET layer == payload[i]
           block == ServiceBlock(layer.name, now)
           added == structureAddBlock(structure, layer.id, block)
       IN IF ~added.result.isSuccess
          THEN [failure |-> <<added.result.error>>, structure |-> structure,
                blockIdMap |-> blockIdMap]
          ELSE addLayers(payload, i + 1, added.structure,
                         (layer.id :> block.id) @@ blockIdMap, now)

\* the loop over input.solution.connections from index i on
RECURSIVE addConnections(_, _, _, _)
addConnections(payload, i, structure, blockIdMap) ==
  IF i > Len(payload)
  THEN [failure |-> <<>>, structure |-> structure]
  ELSE LET connection == payload[i] IN
       IF connection.from \notin DOMAIN blockIdMap
            \/ connection.to \notin DOMAIN blockIdMap
       THEN [failure |-> <<ErrInvalidConnection>>, structure |-> structure]
       ELSE LET created ==
                  structureCreateConnection(structure,
                                            blockIdMap[connection.from],
                                            blockIdMap[connection.to])
            IN IF ~created.result.isSuccess
               THEN [failure |-> <<created.result.error>>,
                     structure |-> structure]
               ELSE addConnections(payload, i + 1, created.structure,
                                   blockIdMap)

\* lines 46-73 of execute: the structure built from the payload
buildStructure(solution, now) ==
  LET layered == addLayers(solution.layers[1], 1, LayerStructureCreate,
                           <<>>, now)
  IN IF layered.failure # <<>>
     THEN [failure |-> layered.failure, structure |-> layered.structure]
     ELSE addConnections(solution.connections[1], 1, layered.structure,
                         layered.blockIdMap)

\* session.submitSolution(solution, options) on the session s at the date
\* now: the result and the session left
sessionSubmitSolution(s, solution, options, now) ==
  IF s.state = Completed
  THEN [result |-> ResultFail(ErrSessionCompleted), session |-> s]
  ELSE IF s.state = Abandoned
  THEN [result |-> ResultFail(ErrSessionAbandoned), session |-> s]
  ELSE LET validator ==
             ArchitectureValidator(TestRules, DEFAULT_RULE_CONFIGS)
           submitted ==
             [s EXCEPT
                !.validationResult =
                  <<validateArchitecture(validator, solution.blocks,
                                         solution.connections)>>,
                !.solution = <<solution>>,
                !.state = Completed,
                !.completedAt = <<now>>]
       IN [result |-> ResultOk(<<>>),
           session |-> calculateSessionScore(submitted, options)]

\* the catch of SubmitSolutionUseCase.execute: an ApplicationError is
\* thrown again, any other error becomes a failure with its message
submitCatch(error) ==
  IF error.name = "ApplicationError" THEN Thrown(error)
  ELSE ResultFail(error.message)

\* the score, violations and completion the output DTO reports
SubmitSolutionOutputDTO(s) ==
  [score |-> s.score,
   violations |->
     IF s.validationResult = <<>> THEN <<>>
     ELSE s.validationResult[1].violations,
   isCompleted |-> s.state = Completed]

SubmitExecuteOp == "SubmitSolutionUseCase.execute"
StartExecuteOp == "StartGameSessionUseCase.execute"
SaveOp == "GameSessionRepository.save"

\* what a repository lookup does: resolves to null, resolves to an object,
\* or rejects
FindAnswers == {"null", "found", "rejected"}

\* the use case has returned r
Returned(name, r) ==
  /\ ret' = r
  /\ usecase' = [pc |-> "returned", name |-> name, attempt |-> 0,
                 saves |-> <<>>]

\* the use case is about to make its first repository.save
Saving(name) ==
  /\ UNCHANGED ret
  /\ usecase' = [pc |-> "saving", name |-> name, attempt |-> 1,
                 saves |-> <<>>]

\* variant: the owner of the session is not compared with the player
submitExecuteAnyPlayer(input, found, now) ==
  /\ usecase.pc # "saving"
  /\ found = "found" => session # NoSession
  /\ call' = [op |-> SubmitExecuteOp, input |-> input, found |-> found]
  /\ LET validation == validateInput(input) IN
     IF ~validation.isSuccess
     THEN Returned(SubmitExecuteOp, ResultFail(validation.error))
            /\ UNCHANGED session
     ELSE IF found = "rejected"
     THEN Returned(SubmitExecuteOp, submitCatch(Error(DbError)))
            /\ UNCHANGED session
     ELSE IF found = "null"
     THEN Returned(SubmitExecuteOp, ResultFail(ErrSessionNotFound))
            /\ UNCHANGED session
     ELSE LET built == buildStructure(input.solution[1], now) IN
          IF built.failure # <<>>
          THEN Returned(SubmitExecuteOp, ResultFail(built.failure[1]))
                 /\ UNCHANGED session
          ELSE LET submitResult ==
                     sessionSubmitSolution(
                       session,
                       LayerStructure(built.structure.blocks,
                                      built.structure.connections),
                       <<>>, now)
               IN IF ~submitResult.result.isSuccess
                  THEN Returned(SubmitExecuteOp,
                                ResultFail(submitResult.result.error))
                         /\ UNCHANGED session
                  ELSE Saving(SubmitExecuteOp)
                         /\ session' = submitResult.session
  /\ UNCHANGED <<graph, vlist, vscore>>

\* execute(input) up to its first repository.save: found is what
\* findById(input.sessionId) does, now the reading of the clock
submitExecute(input, found, now) ==
  /\ usecase.pc # "saving"
  /\ found = "found" => session # NoSession
  /\ call' = [op |-> SubmitExecuteOp, input |-> input, found |-> found]
  /\ LET validation == validateInput(input) IN
     IF ~validation.isSuccess
     THEN Returned(SubmitExecuteOp, ResultFail(validation.error))
            /\ UNCHANGED session
     ELSE IF found = "rejected"
     THEN Returned(SubmitExecuteOp, submitCatch(Error(DbError)))
            /\ UNCHANGED session
     ELSE IF found = "null"
     THEN Returned(SubmitExecuteOp, ResultFail(ErrSessionNotFound))
            /\ UNCHANGED session
     ELSE IF session.userId # input.playerId[1]
     THEN Returned(SubmitExecuteOp, ResultFail(ErrNoPermission))
            /\ UNCHANGED session
     ELSE LET built == buildStructure(input.solution[1], now) IN
          IF built.failure # <<>>
          THEN Returned(SubmitExecuteOp, ResultFail(built.failure[1]))
                 /\ UNCHANGED session
          ELSE LET submitResult ==
                     sessionSubmitSolution(
                       session,
                       LayerStructure(built.structure.blocks,
                                      built.structure.connections),
                       <<>>, now)
               IN IF ~submitResult.result.isSuccess
                  THEN Returned(SubmitExecuteOp,
                                ResultFail(submitResult.result.error))
                         /\ UNCHANGED session
                  ELSE Saving(SubmitExecuteOp)
                         /\ session' = submitResult.session
  /\ UNCHANGED <<graph, vlist, vscore>>

\* one repository.save(session) of saveWithRetry and what follows it in
\* execute: the output once a save resolved, the next attempt, or the
\* error of saveWithRetry passing through the catch
submitSave(ok) ==
  /\ usecase.pc = "saving"
  /\ usecase.name = SubmitExecuteOp
  /\ call' = [op |-> SaveOp, ok |-> ok]
  /\ LET next == saveWithRetry(usecase.attempt, ok)
         saves == Append(usecase.saves, ok)
     IN IF next = "return"
        THEN /\ ret' = ResultOk(<<SubmitSolutionOutputDTO(session)>>)
             /\ usecase' = [usecase EXCEPT !.pc = "returned",
                                           !.saves = saves]
        ELSE IF next = "retry"
        THEN /\ UNCHANGED ret
             /\ usecase' = [usecase EXCEPT !.attempt = @ + 1,
                                           !.saves = saves]
        ELSE LET outcome == submitCatch(SaveFailedError(Error(DbError)))
             IN /\ ret' = outcome
                /\ usecase' =
                     [usecase EXCEPT
                        !.pc = IF "thrown" \in DOMAIN outcome
                               THEN "thrown" ELSE "returned",
                        !.saves = saves]
  /\ UNCHANGED <<graph, vlist, vscore, session>>

(***************************************************************************)
(* StartGameSessionUseCase                                                 *)
(***************************************************************************)
\* GameSession.start(userId, challenge): the session and its user
GameSessionOf(userId, challenge) ==
  [userId |-> userId] @@ GameSession(challenge)

\* the catch of StartGameSessionUseCase.execute: an ApplicationError is
\* returned as the failure, any other error as SESSION_START_FAILED
startCatch(error) ==
  IF error.name = "ApplicationError" THEN ResultFail(error)
  ELSE ResultFail(ApplicationError(ErrSessionStartFailed,
                                   "SESSION_START_FAILED", 500))

\* variant: the challenge is looked up before the active session
startExecuteChallengeFirst(dto, active, challengeFound, challenge) ==
  /\ usecase.pc # "saving"
  /\ call' = [op |-> StartExecuteOp, dto |-> dto, active |-> active,
              challengeFound |-> challengeFound]
  /\ IF IsBlank(dto.userId)
     THEN Returned(StartExecuteOp,
                   ResultFail(ApplicationError(ErrUserIdRequired,
                                               "INVALID_USER_ID", 400)))
            /\ UNCHANGED session
     ELSE IF IsBlank(dto.challengeId)
     THEN Returned(StartExecuteOp,
                   ResultFail(ApplicationError(ErrChallengeIdRequired,
                                               "INVALID_CHALLENGE_ID", 400)))
            /\ UNCHANGED session
     ELSE IF challengeFound = "rejected"
     THEN Returned(StartExecuteOp, startCatch(Error(DbError)))
            /\ UNCHANGED session
     ELSE IF challengeFound = "null"
     THEN Returned(StartExecuteOp,
                   ResultFail(ApplicationError(ErrChallengeNotFound,
                                               "CHALLENGE_NOT_FOUND", 404)))
            /\ UNCHANGED session
     ELSE IF active = "rejected"
     THEN Returned(StartExecuteOp, startCatch(Error(DbError)))
            /\ UNCHANGED session
     ELSE IF active = "found"
     THEN Returned(StartExecuteOp,
                   ResultFail(ApplicationError(ErrActiveSessionExists,
                                               "ACTIVE_SESSION_EXISTS", 409)))
            /\ UNCHANGED session
     ELSE Saving(StartExecuteOp)
            /\ session' = GameSessionOf(dto.userId[1], challenge)
  /\ UNCHANGED <<graph, vlist, vscore>>

\* execute(dto) up to its first repository.save: active is what
\* findActiveByUserId(dto.userId) does, challengeFound what
\* challengeRepository.findById(dto.challengeId) does, challenge the
\* challenge it resolves to
startExecute(dto, active, challengeFound, challenge) ==
  /\ usecase.pc # "saving"
  /\ call' = [op |-> StartExecuteOp, dto |-> dto, active |-> active,
              challengeFound |-> challengeFound]
  /\ IF IsBlank(dto.userId)
     THEN Returned(StartExecuteOp,
                   ResultFail(ApplicationError(ErrUserIdRequired,
                                               "INVALID_USER_ID", 400)))
            /\ UNCHANGED session
     ELSE IF IsBlank(dto.challengeId)
     THEN Returned(StartExecuteOp,
                   ResultFail(ApplicationError(ErrChallengeIdRequired,
                                               "INVALID_CHALLENGE_ID", 400)))
            /\ UNCHANGED session
     ELSE IF active = "rejected"
     THEN Returned(StartExecuteOp, startCatch(Error(DbError)))
            /\ UNCHANGED session
     ELSE IF active = "found"
     THEN Returned(StartExecuteOp,
                   ResultFail(ApplicationError(ErrActiveSessionExists,
                                               "ACTIVE_SESSION_EXISTS", 409)))
            /\ UNCHANGED session
     ELSE IF challengeFound = "rejected"
     THEN Returned(StartExecuteOp, startCatch(Error(DbError)))
            /\ UNCHANGED session
     ELSE IF challengeFound = "null"
     THEN Returned(StartExecuteOp,
                   ResultFail(ApplicationError(ErrChallengeNotFound,
                                               "CHALLENGE_NOT_FOUND", 404)))
            /\ UNCHANGED session
     ELSE Saving(StartExecuteOp)
            /\ session' = GameSessionOf(dto.userId[1], challenge)
  /\ UNCHANGED <<graph, vlist, vscore>>

\* one repository.save(session) of saveWithRetry and what follows it in
\* execute: the session once a save resolved, the next attempt, or the
\* error of saveWithRetry returned by the catch.  A session no save
\* stored is dropped with the call.
startSave(ok) ==
  /\ usecase.pc = "saving"
  /\ usecase.name = StartExecuteOp
  /\ call' = [op |-> SaveOp, ok |-> ok]
  /\ LET next == saveWithRetry(usecase.attempt, ok)
         saves == Append(usecase.saves, ok)
     IN IF next = "return"
        THEN /\ ret' = ResultOk(<<session>>)
             /\ usecase' = [usecase EXCEPT !.pc = "returned",
                                           !.saves = saves]
             /\ UNCHANGED session
        ELSE IF next = "retry"
        THEN /\ UNCHANGED ret
             /\ usecase' = [usecase EXCEPT !.attempt = @ + 1,
                                           !.saves = saves]
             /\ UNCHANGED session
        ELSE /\ ret' = startCatch(SaveFailedError(Error(DbError)))
             /\ usecase' = [usecase EXCEPT !.pc = "returned",
                                           !.saves = saves]
             /\ session' = NoSession
  /\ UNCHANGED <<graph, vlist, vscore>>

(***************************************************************************)
(* The two use cases called one after the other on the session the last    *)
(* start created, which may be paused or abandoned between two calls.      *)
(***************************************************************************)
UserOne == <<"u", "1">>
UserTwo == <<"u", "2">>

\* undefined, the empty string and blanks
BlankIds == {<<>>, <<<<>>>>, <<<<" ", " ">>>>}

\* a request of each user, and the requests with a blank or a padded field
StartDtos ==
  {[userId |-> <<u>>, challengeId |-> <<<<"c", "h">>>>] :
     u \in {UserOne, UserTwo, <<" ", "u">>}}
    \cup {[userId |-> u, challengeId |-> c] :
            u \in BlankIds \cup {<<UserOne>>}, c \in BlankIds}
    \cup {[userId |-> u, challengeId |-> <<<<"c", "h">>>>] : u \in BlankIds}

LayerPayloads ==
  {<<>>,
   <<[id |-> Presentation, name |-> "View"],
     [id |-> Application, name |-> "Flow"]>>,
   <<[id |-> Presentation, name |-> "View"],
     [id |-> Infrastructure, name |-> "Store"]>>,
   <<[id |-> "unknown", name |-> "View"]>>}

ConnectionPayloads ==
  {<<>>,
   <<[from |-> Presentation, to |-> Application]>>,
   <<[from |-> Presentation, to |-> Infrastructure]>>,
   <<[from |-> Presentation, to |-> Presentation],
     [from |-> Presentation, to |-> Domain]>>}

\* no solution, a layers or connections field that is no array, and the
\* payloads
SolutionPayloads ==
  {<<>>,
   <<[layers |-> <<>>, connections |-> <<<<>>>>]>>,
   <<[layers |-> <<<<>>>>, connections |-> <<>>]>>}
    \cup {<<[layers |-> <<l>>, connections |-> <<c>>]>> :
            l \in LayerPayloads, c \in ConnectionPayloads}

SessionIdOne == <<"s", "1">>

\* every payload sent by the first user, a payload sent by the second,
\* and the requests with a blank field
SubmitInputs ==
  {[sessionId |-> <<SessionIdOne>>, playerId |-> <<UserOne>>,
    solution |-> s] : s \in SolutionPayloads}
    \cup {[sessionId |-> <<SessionIdOne>>, playerId |-> <<UserTwo>>,
           solution |-> <<[layers |-> <<l>>, connections |-> <<<<>>>>]>>] :
            l \in LayerPayloads}
    \cup {[sessionId |-> i, playerId |-> p,
           solution |-> <<[layers |-> <<<<>>>>, connections |-> <<<<>>>>]>>] :
            i \in BlankIds \cup {<<SessionIdOne>>},
            p \in BlankIds \cup {<<UserOne>>}}
    \cup {[sessionId |-> <<>>, playerId |-> <<>>, solution |-> <<>>]}

NextUseCases ==
  \/ \E dto \in StartDtos, active \in FindAnswers,
        challengeFound \in FindAnswers, challenge \in SessionChallenges :
       startExecute(dto, active, challengeFound, challenge)
  \/ \E ok \in BOOLEAN : startSave(ok)
  \/ \E input \in SubmitInputs, found \in FindAnswers, now \in Dates :
       submitExecute(input, found, now)
  \/ \E ok \in BOOLEAN : submitSave(ok)
  \/ (usecase.pc # "saving" /\ session # NoSession /\ pause)
  \/ (usecase.pc # "saving" /\ session # NoSession
        /\ \E now \in Dates : abandon(now))

SpecUseCases == Init /\ [][NextUseCases]_vars

(***************************************************************************)
(* Claims on the use cases.                                                *)
(***************************************************************************)
\* every repository.save of the current call rejected
AllSavesFailed ==
  /\ usecase.saves # <<>>
  /\ \A i \in 1..Len(usecase.saves) : ~usecase.saves[i]

\* C32: when every attempt to save the session fails,
\* SubmitSolutionUseCase.execute completes by returning, not throwing, a
\* failure whose error contains the save-failed text, after exactly 3
\* calls of repository.save.
C32_SaveFailureIsReturned ==
  (/\ usecase.name = SubmitExecuteOp
   /\ call.op = SaveOp
   /\ usecase.pc # "saving"
   /\ AllSavesFailed)
    => (/\ Len(usecase.saves) = MAX_RETRY_COUNT
        /\ usecase.pc = "returned"
        /\ ~ret.isSuccess
        /\ ret.error[1] = ErrSessionSaveFailed)

\* C33: in StartGameSessionUseCase.execute repository.save is attempted at
\* most 3 times per call and never again after an attempt succeeded; the
\* call returns success as soon as one attempt succeeds, and returns a
\* failure with code SESSION_SAVE_FAILED if and only if all three
\* attempts failed.
C33_StartSavesAtMostThrice ==
  (usecase.name = StartExecuteOp /\ call.op \in {StartExecuteOp, SaveOp})
    => LET saves == usecase.saves
           n == Len(saves)
       IN /\ n <= 3
          /\ \A i \in 1..(n - 1) : ~saves[i]
          /\ usecase.pc = "saving" => (n < 3 /\ \A i \in 1..n : ~saves[i])
          /\ (n > 0 /\ saves[n]) => (usecase.pc = "returned" /\ ret.isSuccess)
          /\ usecase.pc = "returned"
               => ((~ret.isSuccess /\ ret.error.code = "SESSION_SAVE_FAILED")
                     <=> (n = 3 /\ AllSavesFailed))

\* a call that succeeded on the third save after two rejections
C33_Witness ==
  /\ usecase.name = StartExecuteOp
  /\ call.op = SaveOp
  /\ usecase.saves = <<FALSE, FALSE, TRUE>>
  /\ usecase.pc = "returned"
  /\ ret.isSuccess
  /\ session.state = InProgress

\* the call just made returned a failure with this code without a save
StartFailsWith(code) ==
  /\ usecase'.pc = "returned"
  /\ usecase'.saves = <<>>
  /\ ~ret'.isSuccess
  /\ ret'.error.code = code
  /\ session' = session

\* C34: StartGameSessionUseCase.execute goes on to repository.save only
\* when userId and challengeId are non-blank, the user has no active
\* session and the challenge exists; otherwise it returns a failure with
\* code INVALID_USER_ID, INVALID_CHALLENGE_ID, ACTIVE_SESSION_EXISTS or
\* CHALLENGE_NOT_FOUND, the first of these checks that fails deciding.
C34_StartChecksInOrder ==
  [][call'.op = StartExecuteOp
       => LET dto == call'.dto
              active == call'.active
              challengeFound == call'.challengeFound
          IN /\ usecase'.pc = "saving"
                  => (/\ ~IsBlank(dto.userId)
                      /\ ~IsBlank(dto.challengeId)
                      /\ active = "null"
                      /\ challengeFound = "found")
             /\ IsBlank(dto.userId) => StartFailsWith("INVALID_USER_ID")
             /\ (~IsBlank(dto.userId) /\ IsBlank(dto.challengeId))
                  => StartFailsWith("INVALID_CHALLENGE_ID")
             /\ (/\ ~IsBlank(dto.userId)
                 /\ ~IsBlank(dto.challengeId)
                 /\ active = "found")
                  => StartFailsWith("ACTIVE_SESSION_EXISTS")
             /\ (/\ ~IsBlank(dto.userId)
                 /\ ~IsBlank(dto.challengeId)
                 /\ active = "null"
                 /\ challengeFound = "null")
                  => StartFailsWith("CHALLENGE_NOT_FOUND")]_vars

\* a user with an active session asked for a challenge that does not exist
C34_Witness ==
  /\ call.op = StartExecuteOp
  /\ call.active = "found"
  /\ call.challengeFound = "null"
  /\ usecase.pc = "returned"
  /\ usecase.saves = <<>>
  /\ ~ret.isSuccess
  /\ ret.error.code = "ACTIVE_SESSION_EXISTS"

\* a connection of the payload names a layer that no entry of its layers
\* has as id
NamesMissingLayer(solution) ==
  /\ solution # <<>>
  /\ solution[1].layers # <<>>
  /\ solution[1].connections # <<>>
  /\ LET ids == {solution[1].layers[1][i].id :
                   i \in 1..Len(solution[1].layers[1])}
     IN \E i \in 1..Len(solution[1].connections[1]) :
          \/ solution[1].connections[1][i].from \notin ids
          \/ solution[1].connections[1][i].to \notin ids

\* C35: SubmitSolutionUseCase.execute returns a failure, leaves the
\* session as it was and calls no repository.save when the input lacks a
\* session id, a player id or a solution, when the session is not found,
\* when the session's user differs from playerId, or when a connection
\* names a layer that is not among the payload's layers.
C35_BadSubmissionRefused ==
  [][(/\ call'.op = SubmitExecuteOp
      /\ \/ IsBlank(call'.input.sessionId)
         \/ IsBlank(call'.input.playerId)
         \/ call'.input.solution = <<>>
         \/ call'.found = "null"
         \/ (call'.found = "found"
               /\ session.userId # call'.input.playerId[1])
         \/ NamesMissingLayer(call'.input.solution))
       => (/\ usecase'.pc = "returned"
           /\ usecase'.saves = <<>>
           /\ ~ret'.isSuccess
           /\ session' = session)]_vars

\* the owner of a session in progress sent a connection into a layer the
\* payload does not list
C35_Witness ==
  /\ call.op = SubmitExecuteOp
  /\ call.found = "found"
  /\ ~IsBlank(call.input.playerId)
  /\ session.userId = call.input.playerId[1]
  /\ NamesMissingLayer(call.input.solution)
  /\ usecase.pc = "returned"
  /\ usecase.saves = <<>>
  /\ ~ret.isSuccess
  /\ ret.error = ErrInvalidConnection
  /\ session.state = InProgress

\* C36: after any sequence of addBlock and createConnection calls, addBlock
\* of an already-registered block included, every stored connection is
\* legal under the direction table for the layers currently recorded for
\* its two endpoints.
C36_StoredConnectionsStayLegal ==
  \A i \in 1..Len(connections) :
    /\ MapHas(blocks, connections[i].from)
    /\ MapHas(blocks, connections[i].to)
    /\ validateDependency(LayerOf(blocks, connections[i].from),
                          LayerOf(blocks, connections[i].to)).isSuccess

(***************************************************************************)
(* The whole life of a session: every operation of GameSession, the two    *)
(* that only keep statistics included.                                     *)
(***************************************************************************)
RecordActionOp == "GameSession.recordAction"
ValidateCurrentStructureOp == "GameSession.validateCurrentStructure"

recordAction(actionType) ==
  /\ call.op # "create"
  /\ call' = [op |-> RecordActionOp, actionType |-> actionType]
  /\ session' =
       [session EXCEPT
          !.statistics.totalActions = @ + 1,
          !.statistics.actionTypes =
            IF \E i \in 1..Len(@) : @[i] = actionType THEN @
            ELSE Append(@, actionType)]
  /\ ret' = <<>>
  /\ UNCHANGED <<graph, vlist, vscore, usecase>>

validateCurrentStructure(structure) ==
  /\ call.op # "create"
  /\ call' = [op |-> ValidateCurrentStructureOp, structure |-> structure]
  /\ session' = [session EXCEPT !.statistics.validationCount = @ + 1]
  /\ ret' = validateArchitecture(
              ArchitectureValidator(TestRules, DEFAULT_RULE_CONFIGS),
              structure.blocks, structure.connections)
  /\ UNCHANGED <<graph, vlist, vscore, usecase>>

\* recordAction and validateCurrentStructure calls followed per session
MaxStatistics == 2

ActionTypes == {"add-block", "connect"}

\* the statistics calls made so far
StatisticsCalls ==
  session.statistics.totalActions + session.statistics.validationCount

NextLifecycle ==
  \/ \E challenge \in SessionChallenges : start(challenge)
  \/ \E solution \in SessionSolutions, options \in {<<>>, <<10>>},
        now \in Dates : submitSolution(solution, options, now)
  \/ \E index \in {0, 1} : useHint(index)
  \/ pause
  \/ resume
  \/ \E now \in Dates : abandon(now)
  \/ \E actionType \in ActionTypes :
       recordAction(actionType) /\ StatisticsCalls' <= MaxStatistics
  \/ \E structure \in SessionSolutions :
       /\ validateCurrentStructure(structure)
       /\ StatisticsCalls' <= MaxStatistics

SpecLifecycle == Init /\ [][NextLifecycle]_vars

\* C37: Completed and Abandoned are absorbing: once either is reached no
\* submitSolution, pause, resume, abandon, useHint, recordAction or
\* validateCurrentStructure call changes the state, and for a Completed
\* session the stored solution, validation result and score never change
\* again.
C37_CompletedAndAbandonedAbsorb ==
  [][(call.op # "create" /\ session.state \in {Completed, Abandoned})
       => (/\ session'.state = session.state
           /\ session.state = Completed
                => (/\ session'.solution = session.solution
                    /\ session'.validationResult = session.validationResult
                    /\ session'.score = session.score))]_vars

\* an abandon that found the session completed, with its solution
C37_Witness ==
  /\ call.op = AbandonOp
  /\ session.state = Completed
  /\ session.solution # <<>>
  /\ session.validationResult # <<>>

C39_ValidIffScore100 ==
  call.op = ValidatorValidateOp
    => (/\ ret.isValid <=> ret.score = 100
        /\ ret.violations = <<>> => ret.score = 100
        /\ ret.violations # <<>> => ret.score <= 100 - 5)

\* a result with violations, scored below 100, and not valid
C39_Witness ==
  /\ call.op = ValidatorValidateOp
  /\ ret.violations # <<>>
  /\ ~ret.isValid
  /\ ret.score < 100
  /\ ret.score = SubtractPenalties(InitialScore, ret.violations)

====
